---- MODULE Spec2Model ----
(***************************************************************************)
(* A model of y.granular: the array-encoded linked list of linked_list.h   *)
(* and linked_list.c, and the granular~ engine of granular.c (seeder       *)
(* registry, grain pool, scheduler and renderer of granular_perform64).    *)
(*                                                                         *)
(* Pointers into a list's array (t_int16* node) are modelled as cell       *)
(* numbers: the cell n is list->first_used, the cell n+1 is                *)
(* list->first_empty, and "list->array + *node" is the cell array[node].   *)
(***************************************************************************)
EXTENDS Integers, Sequences, FiniteSets, TLC

\* ---- linked_list.h: the return codes
LIST_END == -1
LIST_ERR_FULL == -2
LIST_ERR_EMPTY == -3
LIST_ERR_ARG == -6
LIST_NOT_FOUND == -7

\* ---- bounds of the model
\* Largest capacity of the list exercised by the list specification.
MaxListLen == 4
\* seeders_max in the specification of the control commands.
CtlSeeders == 2
\* How far seeders_cnt may leave the range 0..seeders_max before the model
\* stops following it (the counter is a t_int16 and drifts without limit once
\* it disagrees with the list).
CntSlack == 0
\* grains_max in the specifications of the engine.
MaxGrains == 2
\* Largest block size (sampleframes) the host runs the engine with.
MaxBlock == 2
\* Largest grain length, in milliseconds (one sample per millisecond).
MaxLen == 3
\* Largest magnitude of an accumulated output sample before the finisher.
MaxAmp == 5
\* Frames of the source buffer in the specifications of the engine.
SrcFrames == 4

VARIABLES
  lst,      \* the t_list exercised by the list specification
  lpre,     \* that list before the last list operation
  lop,      \* the last list operation: <<name, argument, index released>>, and
            \* for a list_insert_first the operation before it: its name and the
            \* index it released
  lret,     \* the value the last list operation returned
  nfirst    \* number of calls so far when every call since list_new was a
            \* successful list_insert_first, -1 once any other call happened

lvars == <<lst, lpre, lop, lret, nfirst>>

VARIABLES
  gx,       \* the t_granular object (x in granular.c)
  host,     \* the host's buffer~ objects: name -> [n_frm, n_chn, msr]
  pc,       \* where the object's code is: "idle" between calls, "seeders" and
            \* "grains" inside granular_perform64, or the loop it never leaves
  cursor,   \* the list cursor of granular_perform64 (node)
  strm,     \* the grain stream granular_perform64 is scheduling
  n_smp,    \* sampleframes: the block size the host calls granular_perform64 with
  rend,     \* per cell of grains_arr: samples written for the grain spawned
            \* there last (history, not read by the code)
  blk,      \* the main stream of the seeder being scheduled, in this block:
            \* its countdown when the seeder's turn began (c), the turns of
            \* its loop so far (k) and the grains it spawned (n), both
            \* counted up to n_smp + 1 turns (history)
  obs       \* what the last call did (its name, arguments and outputs)

gvars == <<gx, host, pc, cursor, strm, n_smp, rend, blk, obs>>

\* ======================================================================
\* linked_list.c / linked_list.h
\* ======================================================================

\* *cell = v
Store(a, cell, v) == [a EXCEPT ![cell] = v]

first_used(l) == l.len
first_empty(l) == l.len + 1

\* Variant of list_new: the empty list is chained from n - 1 down to 0.
list_new_descending(n) ==
  [len |-> n,
   array |-> [i \in 0..(n + 1) |->
                IF i = 0 THEN LIST_END
                ELSE IF i < n THEN i - 1
                ELSE IF i = n THEN LIST_END
                ELSE n - 1]]

list_new(n) ==
  [len |-> n,
   array |-> [i \in 0..(n + 1) |->
                IF i < n - 1 THEN i + 1
                ELSE IF i = n - 1 THEN LIST_END
                ELSE IF i = n THEN LIST_END
                ELSE 0]]

\* Variant of list_insert_first: the guard tests the used list's head.
list_insert_first_wrong_head(l) ==
  IF l.array[first_used(l)] = LIST_END THEN [l |-> l, ret |-> LIST_ERR_FULL]
  ELSE LET tmp == l.array[first_empty(l)]
           a1 == Store(l.array, first_empty(l), l.array[tmp])
           a2 == Store(a1, tmp, a1[first_used(l)])
           a3 == Store(a2, first_used(l), tmp)
       IN [l |-> [l EXCEPT !.array = a3], ret |-> tmp]

list_insert_first(l) ==
  IF l.array[first_empty(l)] = LIST_END THEN [l |-> l, ret |-> LIST_ERR_FULL]
  ELSE LET tmp == l.array[first_empty(l)]
           a1 == Store(l.array, first_empty(l), l.array[tmp])
           a2 == Store(a1, tmp, a1[first_used(l)])
           a3 == Store(a2, first_used(l), tmp)
       IN [l |-> [l EXCEPT !.array = a3], ret |-> tmp]

list_insert_node(l, node) ==
  IF l.array[first_empty(l)] = LIST_END THEN [l |-> l, ret |-> LIST_ERR_FULL]
  ELSE LET tmp == l.array[first_empty(l)]
           a1 == Store(l.array, first_empty(l), l.array[tmp])
           a2 == Store(a1, tmp, a1[node])
           a3 == Store(a2, node, tmp)
       IN [l |-> [l EXCEPT !.array = a3], ret |-> tmp]

list_remove_first(l) ==
  IF l.array[first_used(l)] = LIST_END THEN [l |-> l, ret |-> LIST_ERR_EMPTY]
  ELSE LET tmp == l.array[first_used(l)]
           a1 == Store(l.array, first_used(l), l.array[tmp])
           a2 == Store(a1, tmp, a1[first_empty(l)])
           a3 == Store(a2, first_empty(l), tmp)
       IN [l |-> [l EXCEPT !.array = a3], ret |-> tmp]

\* Variant of list_remove_node: the node is unlinked from the used list but
\* not put into the empty list.
list_remove_node_no_splice(l, node) ==
  IF l.array[first_used(l)] = LIST_END THEN [l |-> l, ret |-> LIST_ERR_EMPTY]
  ELSE LET tmp == l.array[node]
       IN [l |-> [l EXCEPT !.array = Store(l.array, node, l.array[tmp])], ret |-> tmp]

list_remove_node(l, node) ==
  IF l.array[first_used(l)] = LIST_END THEN [l |-> l, ret |-> LIST_ERR_EMPTY]
  ELSE LET tmp == l.array[node]
           a1 == Store(l.array, node, l.array[tmp])
           a2 == Store(a1, tmp, a1[first_empty(l)])
           a3 == Store(a2, first_empty(l), tmp)
       IN [l |-> [l EXCEPT !.array = a3], ret |-> tmp]

\* while (*node != LIST_END) { node = list->array + *node; }
RECURSIVE WalkToEnd(_, _)
WalkToEnd(a, node) == IF a[node] = LIST_END THEN node ELSE WalkToEnd(a, a[node])

list_insert_last(l) ==
  IF l.array[first_empty(l)] = LIST_END THEN [l |-> l, ret |-> LIST_ERR_FULL]
  ELSE LET node == WalkToEnd(l.array, first_used(l))
           a1 == Store(l.array, node, l.array[first_empty(l)])
           a2 == Store(a1, first_empty(l), a1[a1[node]])
           a3 == Store(a2, a2[node], LIST_END)
       IN [l |-> [l EXCEPT !.array = a3], ret |-> a3[node]]

\* while ((*node != LIST_END) && (cnt > 0)) { node = list->array + *node; cnt--; }
RECURSIVE WalkNth(_, _, _)
WalkNth(a, node, cnt) ==
  IF a[node] # LIST_END /\ cnt > 0 THEN WalkNth(a, a[node], cnt - 1) ELSE node

list_insert_nth(l, n) ==
  IF l.array[first_empty(l)] = LIST_END THEN [l |-> l, ret |-> LIST_ERR_FULL]
  ELSE LET node == WalkNth(l.array, first_used(l), n)
           tmp == l.array[first_empty(l)]
           a1 == Store(l.array, first_empty(l), l.array[tmp])
           a2 == Store(a1, tmp, a1[node])
           a3 == Store(a2, node, tmp)
       IN [l |-> [l EXCEPT !.array = a3], ret |-> tmp]

\* while ((*node != LIST_END) && (*node != index)) { node = list->array + *node; }
RECURSIVE WalkToIndex(_, _, _)
WalkToIndex(a, node, index) ==
  IF a[node] # LIST_END /\ a[node] # index THEN WalkToIndex(a, a[node], index) ELSE node

\* Variant of list_insert_index: the index is linked behind the first used node
\* instead of in front of it.
list_insert_index_behind(l, index) ==
  LET node == WalkToIndex(l.array, first_empty(l), index)
      u == l.array[first_used(l)] IN
  IF l.array[node] = LIST_END THEN [l |-> l, ret |-> LIST_NOT_FOUND]
  ELSE IF u = LIST_END
       THEN LET a1 == Store(l.array, node, l.array[index])
                a2 == Store(a1, index, LIST_END)
                a3 == Store(a2, first_used(l), index)
            IN [l |-> [l EXCEPT !.array = a3], ret |-> index]
       ELSE LET a1 == Store(l.array, node, l.array[index])
                a2 == Store(a1, index, a1[u])
                a3 == Store(a2, u, index)
            IN [l |-> [l EXCEPT !.array = a3], ret |-> index]

list_insert_index(l, index) ==
  LET node == WalkToIndex(l.array, first_empty(l), index) IN
  IF l.array[node] = LIST_END THEN [l |-> l, ret |-> LIST_NOT_FOUND]
  ELSE LET a1 == Store(l.array, node, l.array[index])
           a2 == Store(a1, index, a1[first_used(l)])
           a3 == Store(a2, first_used(l), index)
       IN [l |-> [l EXCEPT !.array = a3], ret |-> index]

\* while (*next != LIST_END) { node = next; next = list->array + *node; }
RECURSIVE WalkToLast(_, _, _)
WalkToLast(a, node, next) ==
  IF a[next] # LIST_END THEN WalkToLast(a, next, a[next]) ELSE node

\* Variant of list_remove_last: the link to the removed node is not cut.
list_remove_last_keeps_link(l) ==
  IF l.array[first_used(l)] = LIST_END THEN [l |-> l, ret |-> LIST_ERR_EMPTY]
  ELSE LET node == WalkToLast(l.array, first_used(l), l.array[first_used(l)])
           a1 == Store(l.array, l.array[node], l.array[first_empty(l)])
           a2 == Store(a1, first_empty(l), a1[node])
       IN [l |-> [l EXCEPT !.array = a2], ret |-> a2[node]]

list_remove_last(l) ==
  IF l.array[first_used(l)] = LIST_END THEN [l |-> l, ret |-> LIST_ERR_EMPTY]
  ELSE LET node == WalkToLast(l.array, first_used(l), l.array[first_used(l)])
           a1 == Store(l.array, l.array[node], l.array[first_empty(l)])
           a2 == Store(a1, first_empty(l), a1[node])
           a3 == Store(a2, node, LIST_END)
       IN [l |-> [l EXCEPT !.array = a3], ret |-> a3[node]]

list_remove_nth(l, n) ==
  IF l.array[first_used(l)] = LIST_END THEN [l |-> l, ret |-> LIST_ERR_EMPTY]
  ELSE LET node == WalkNth(l.array, first_used(l), n) IN
       IF l.array[node] = LIST_END THEN [l |-> l, ret |-> LIST_ERR_ARG]
       ELSE LET tmp == l.array[node]
                a1 == Store(l.array, node, l.array[tmp])
                a2 == Store(a1, tmp, a1[first_empty(l)])
                a3 == Store(a2, first_empty(l), tmp)
            IN [l |-> [l EXCEPT !.array = a3], ret |-> tmp]

\* Variant of list_remove_index: the released index is linked behind the first
\* empty node instead of in front of it.
list_remove_index_behind(l, index) ==
  LET node == WalkToIndex(l.array, first_used(l), index)
      e == l.array[first_empty(l)] IN
  IF l.array[node] = LIST_END THEN [l |-> l, ret |-> LIST_NOT_FOUND]
  ELSE IF e = LIST_END
       THEN LET a1 == Store(l.array, node, l.array[index])
                a2 == Store(a1, index, LIST_END)
                a3 == Store(a2, first_empty(l), index)
            IN [l |-> [l EXCEPT !.array = a3], ret |-> index]
       ELSE LET a1 == Store(l.array, node, l.array[index])
                a2 == Store(a1, index, a1[e])
                a3 == Store(a2, e, index)
            IN [l |-> [l EXCEPT !.array = a3], ret |-> index]

list_remove_index(l, index) ==
  LET node == WalkToIndex(l.array, first_used(l), index) IN
  IF l.array[node] = LIST_END THEN [l |-> l, ret |-> LIST_NOT_FOUND]
  ELSE LET a1 == Store(l.array, node, l.array[index])
           a2 == Store(a1, index, a1[first_empty(l)])
           a3 == Store(a2, first_empty(l), index)
       IN [l |-> [l EXCEPT !.array = a3], ret |-> index]

\* ---- reading a list (list_post walks both chains the same way)

\* The indices met from a cell on, following the links until LIST_END; a link
\* that is no index of the list, or more links than the list has nodes, ends
\* the walk with the marker -9 (the chain is broken or cyclic).
RECURSIVE Chain(_, _, _)
Chain(l, node, fuel) ==
  IF l.array[node] = LIST_END THEN <<>>
  ELSE IF fuel = 0 \/ l.array[node] \notin 0..(l.len - 1) THEN <<-9>>
  ELSE <<l.array[node]>> \o Chain(l, l.array[node], fuel - 1)

UsedSeq(l) == Chain(l, first_used(l), l.len)
EmptySeq(l) == Chain(l, first_empty(l), l.len)
Range(s) == {s[i] : i \in 1..Len(s)}
\* The cells a cursor iterating the used list can address.
UsedCells(l) == {first_used(l)} \cup Range(UsedSeq(l))

\* ======================================================================
\* granular.c: numbers
\* ======================================================================
\* A t_double that the model needs exactly is a fraction <<numerator,
\* denominator>> with a positive denominator; (t_int32)(n / d) truncates
\* toward zero, as the C cast does.
Trunc(n, d) == IF n >= 0 THEN n \div d ELSE -((-n) \div d)

\* (t_int16)v for a whole number v: the low 16 bits, as a signed number.
Int16(v) == ((v + 32768) % 65536) - 32768

\* granular.c defines
POLY_MAX == 10
ENV_N_SMP == 1000

BUFF_NO_LINK == -1
BUFF_NO_SYM == -2
BUFF_NO_REF == -3
BUFF_NO_OBJ == -4
BUFF_NO_FILE == -5
BUFF_READY == 1

\* The symbol "" (sym_empty).
sym_empty == ""

\* A null pointer. A t_buffer_ref* is modelled by the buffer name it refers to
\* and a t_buffer_obj* by the name of the buffer~ object it points to.
NULL == "NULL"

\* ======================================================================
\* granular.c: construction
\* ======================================================================

\* One seeder as granular_new leaves it. msr is x->msamplerate (samples per
\* millisecond). The fields no code reads are left out (buff_file, buff_path,
\* buff_is_chg, env_*: the envelope table is read by index only). The period_cntd cells from poly_cnt on are never read.
NewSeeder(index, msr) ==
  LET src_len == Trunc(100 * msr, 1)
      out_len == Trunc(src_len * 1, 1)
  IN [index |-> index,
      is_on |-> FALSE,
      ampl |-> 1,
      src_begin |-> 0,
      src_len_ms |-> 100,
      src_len |-> src_len,
      shift |-> 0,
      shift_r |-> <<1, 1>>,
      out_len |-> out_len,
      period |-> <<37, 100>>,
      period_len |-> Trunc(out_len * 37, 100),
      speed |-> 1,
      period_rand |-> <<1, 4>>,
      buff_sym |-> sym_empty,
      buff_ref |-> NULL,
      buff_obj |-> NULL,
      buff_n_chn |-> 0,
      buff_n_frm |-> 0,
      buff_msr |-> msr,
      buff_state |-> BUFF_NO_LINK,
      poly_cnt |-> 1,
      period_cntd |-> [i \in 0..(POLY_MAX - 1) |-> 0],
      env_sym |-> "hann"]

\* A cell of grains_arr before any grain was written to it.
BlankGrain ==
  [index |-> 0, ampl |-> 0, src_begin |-> 0, src_len |-> 0, out_begin |-> 0,
   out_len |-> 0, out_cntd |-> 0, src_I |-> 0, src_R |-> 0, env_I |-> 0, env_R |-> 0]

granular_new(seeders_max, grains_max, msr) ==
  [msamplerate |-> msr,
   master |-> 1,
   poly_max |-> POLY_MAX,
   env_n_frm |-> ENV_N_SMP,
   grains_max |-> grains_max,
   grains_cnt |-> 0,
   grains_arr |-> [g \in 0..(grains_max - 1) |-> BlankGrain],
   grains_list |-> list_new(grains_max),
   seeders_max |-> seeders_max,
   seeders_cnt |-> 0,
   seeders_list |-> list_new(seeders_max),
   seeders_arr |-> [i \in 0..(seeders_max - 1) |-> NewSeeder(i, msr)],
   seeders_foc |-> 0,
   buff_env_ref |-> NULL]

\* ======================================================================
\* granular.c: the commands of the control path
\* ======================================================================
\* Every command is an operator from the object (and its arguments) to
\* [x |-> the object afterwards, bang |-> number of bangs sent to outl_compl].

ERR_ARG == -1

\* granular_check_args, for a call with the expected number of arguments and
\* an integer first argument.
granular_check_args(x, index) ==
  IF index < 0 THEN ERR_ARG
  ELSE IF index >= x.seeders_max THEN ERR_ARG
  ELSE index

SetSeeder(x, index, sd) == [x EXCEPT !.seeders_arr[index] = sd]

\* The loop of granular_all_on, from the cursor `node` on. Each turn either
\* inserts the head of the empty list (the cursor stays) or moves the cursor.
\* When the seeder under the cursor is ready and the empty list is exhausted,
\* list_insert_first changes nothing and the loop never ends: hung.
RECURSIVE all_on_loop(_, _)
all_on_loop(x, node) ==
  IF x.seeders_list.array[node] = LIST_END THEN [x |-> x, hung |-> FALSE]
  ELSE LET i == x.seeders_list.array[node]
           seeder == x.seeders_arr[i]
       IN IF seeder.buff_state = BUFF_READY
          THEN LET r == list_insert_first(x.seeders_list)
                   x1 == [x EXCEPT !.seeders_cnt = @ + 1,
                                   !.seeders_arr[i].is_on = TRUE,
                                   !.seeders_list = r.l]
               IN IF r.ret = LIST_ERR_FULL THEN [x |-> x1, hung |-> TRUE]
                  ELSE all_on_loop(x1, node)
          ELSE all_on_loop(x, x.seeders_list.array[node])

granular_all_on(x) ==
  LET r == all_on_loop(x, first_used(x.seeders_list) + 1)
  IN [x |-> r.x, bang |-> IF r.hung THEN 0 ELSE 1, hung |-> r.hung]

\* The loop of granular_all_off: list_remove_node at the head until the used
\* list is empty.
RECURSIVE all_off_loop(_, _)
all_off_loop(x, node) ==
  IF x.seeders_list.array[node] = LIST_END THEN x
  ELSE LET i == x.seeders_list.array[node]
           r == list_remove_node(x.seeders_list, node)
       IN all_off_loop([x EXCEPT !.seeders_cnt = @ - 1,
                                 !.seeders_arr[i].is_on = FALSE,
                                 !.seeders_list = r.l], node)

granular_all_off(x) ==
  [x |-> all_off_loop(x, first_used(x.seeders_list)), bang |-> 1, hung |-> FALSE]

\* Variant of PolyRefused: only the lower limit is tested.
PolyRefused_below_only(x, poly_cnt) == poly_cnt < 1

\* granular_poly: the number of streams is checked, the index is not.
PolyRefused(x, poly_cnt) == poly_cnt < 1 \/ poly_cnt > x.poly_max

\* Variant of granular_seeder_on: a refusal for a source that is not ready
\* returns without the bang.
granular_seeder_on_silent_refusal(x, arg) ==
  LET index == granular_check_args(x, arg) IN
  IF index = ERR_ARG THEN [x |-> x, bang |-> 1, hung |-> FALSE]
  ELSE IF x.seeders_arr[index].is_on THEN [x |-> x, bang |-> 1, hung |-> FALSE]
  ELSE IF x.seeders_arr[index].buff_state = BUFF_NO_FILE THEN [x |-> x, bang |-> 0, hung |-> FALSE]
  ELSE IF x.seeders_arr[index].buff_state # BUFF_READY THEN [x |-> x, bang |-> 0, hung |-> FALSE]
  ELSE LET r == list_insert_index(x.seeders_list, index) IN
       IF r.ret = LIST_END THEN [x |-> [x EXCEPT !.seeders_list = r.l], bang |-> 1, hung |-> FALSE]
       ELSE [x |-> [x EXCEPT !.seeders_list = r.l,
                             !.seeders_cnt = @ + 1,
                             !.seeders_arr[index].is_on = TRUE],
             bang |-> 1, hung |-> FALSE]

granular_seeder_on(x, arg) ==
  LET index == granular_check_args(x, arg) IN
  IF index = ERR_ARG THEN [x |-> x, bang |-> 1, hung |-> FALSE]
  ELSE IF x.seeders_arr[index].is_on THEN [x |-> x, bang |-> 1, hung |-> FALSE]
  ELSE IF x.seeders_arr[index].buff_state = BUFF_NO_FILE THEN [x |-> x, bang |-> 1, hung |-> FALSE]
  ELSE IF x.seeders_arr[index].buff_state # BUFF_READY THEN [x |-> x, bang |-> 1, hung |-> FALSE]
  ELSE LET r == list_insert_index(x.seeders_list, index) IN
       IF r.ret = LIST_END THEN [x |-> [x EXCEPT !.seeders_list = r.l], bang |-> 1, hung |-> FALSE]
       ELSE [x |-> [x EXCEPT !.seeders_list = r.l,
                             !.seeders_cnt = @ + 1,
                             !.seeders_arr[index].is_on = TRUE],
             bang |-> 1, hung |-> FALSE]

\* Variant of granular_seeder_off: the seeder stays in the seeder list.
granular_seeder_off_keeps_node(x, arg) ==
  LET index == granular_check_args(x, arg) IN
  IF index = ERR_ARG THEN [x |-> x, bang |-> 1, hung |-> FALSE]
  ELSE IF ~x.seeders_arr[index].is_on THEN [x |-> x, bang |-> 1, hung |-> FALSE]
  ELSE [x |-> [x EXCEPT !.seeders_cnt = @ - 1, !.seeders_arr[index].is_on = FALSE],
        bang |-> 1, hung |-> FALSE]

granular_seeder_off(x, arg) ==
  LET index == granular_check_args(x, arg) IN
  IF index = ERR_ARG THEN [x |-> x, bang |-> 1, hung |-> FALSE]
  ELSE IF ~x.seeders_arr[index].is_on THEN [x |-> x, bang |-> 1, hung |-> FALSE]
  ELSE LET r == list_remove_index(x.seeders_list, index) IN
       IF r.ret = LIST_END THEN [x |-> [x EXCEPT !.seeders_list = r.l], bang |-> 1, hung |-> FALSE]
       ELSE [x |-> [x EXCEPT !.seeders_list = r.l,
                             !.seeders_cnt = @ - 1,
                             !.seeders_arr[index].is_on = FALSE],
             bang |-> 1, hung |-> FALSE]

\* ---- the host's buffer~ objects
\* h maps the name of each existing buffer~ to its content
\* [n_frm, n_chn, msr]; buffer_ref_getobject finds the object by name.
buffer_ref_getobject(h, ref) == IF ref \in DOMAIN h THEN ref ELSE NULL

\* buffer_locksamples: the samples of the buffer~ obj points to (modelled by
\* the buffer~'s name), or NULL when there is no such object or it holds no
\* audio.
buffer_locksamples(h, obj) ==
  IF obj \in DOMAIN h /\ h[obj].n_frm > 0 THEN obj ELSE NULL

\* granular_buffer with an integer index and a symbol (the "env" branch links
\* the envelope output buffer and touches no seeder; it is not modelled, so
\* x.buff_env_ref stays NULL and line 1318 always makes a new reference).
granular_buffer(x, h, index, sym) ==
  IF ~(index >= 0 /\ index < x.seeders_max) THEN x
  ELSE
  LET sd0 == [x.seeders_arr[index] EXCEPT !.buff_sym = sym] IN
  IF sym = sym_empty THEN SetSeeder(x, index, [sd0 EXCEPT !.buff_state = BUFF_NO_SYM])
  ELSE
  LET sd1 == IF x.buff_env_ref # NULL THEN sd0 ELSE [sd0 EXCEPT !.buff_ref = sym] IN
  IF sd1.buff_ref = NULL THEN SetSeeder(x, index, [sd1 EXCEPT !.buff_state = BUFF_NO_REF])
  ELSE
  LET sd2 == [sd1 EXCEPT !.buff_obj = buffer_ref_getobject(h, sd1.buff_ref)] IN
  IF sd2.buff_obj = NULL THEN SetSeeder(x, index, [sd2 EXCEPT !.buff_state = BUFF_NO_OBJ])
  ELSE
  LET b == h[sd2.buff_obj]
      sd3 == [sd2 EXCEPT !.buff_n_frm = b.n_frm,
                         !.buff_n_chn = b.n_chn,
                         !.buff_msr = b.msr,
                         !.src_len = Trunc(sd2.src_len_ms * b.msr, 1)]
  IN IF b.n_frm = 0 \/ b.n_chn = 0 \/ b.msr = 0
     THEN SetSeeder(x, index, [sd3 EXCEPT !.buff_state = BUFF_NO_FILE])
     ELSE SetSeeder(x, index, [sd3 EXCEPT !.buff_state = BUFF_READY])

\* Variant of file_flush_loop: the grains are unlinked, grains_cnt is kept.
RECURSIVE file_flush_loop_keeps_count(_, _, _)
file_flush_loop_keeps_count(x, node, index) ==
  IF x.grains_list.array[node] = LIST_END THEN x
  ELSE LET g == x.grains_list.array[node] IN
       IF x.grains_arr[g].index = index
       THEN file_flush_loop_keeps_count(
              [x EXCEPT !.grains_list = list_remove_node(x.grains_list, node).l],
              node, index)
       ELSE file_flush_loop_keeps_count(x, x.grains_list.array[node], index)

\* The grain loop of granular_file: unlink every grain of seeder `index`.
RECURSIVE file_flush_loop(_, _, _)
file_flush_loop(x, node, index) ==
  IF x.grains_list.array[node] = LIST_END THEN x
  ELSE LET g == x.grains_list.array[node] IN
       IF x.grains_arr[g].index = index
       THEN file_flush_loop([x EXCEPT !.grains_cnt = @ - 1,
                                      !.grains_list = list_remove_node(x.grains_list, node).l],
                            node, index)
       ELSE file_flush_loop(x, x.grains_list.array[node], index)

\* granular_file, the object's side (three arguments, the first an integer).
granular_file(x, arg) ==
  LET index == granular_check_args(x, arg) IN
  IF index = ERR_ARG THEN [x |-> x, bang |-> 1, hung |-> FALSE]
  ELSE
  LET x1 == IF x.seeders_arr[index].is_on
            THEN LET xf == file_flush_loop(x, first_used(x.grains_list), index)
                 IN [xf EXCEPT !.seeders_list = list_remove_index(xf.seeders_list, index).l,
                               !.seeders_cnt = @ - 1,
                               !.seeders_arr[index].is_on = FALSE]
            ELSE x
  IN [x |-> [x1 EXCEPT !.seeders_arr[index].buff_state = BUFF_READY,
                       !.seeders_arr[index].src_begin = 0],
      bang |-> 1, hung |-> FALSE]

\* granular_file, the host's side: the "read" message sent to
\* seeder->buff_obj replaces that buffer's content by the file's (content is
\* the file's [n_frm, n_chn, msr]); a null object receives nothing.
host_read(x, h, arg, content) ==
  LET index == granular_check_args(x, arg) IN
  IF index = ERR_ARG THEN h
  ELSE LET obj == x.seeders_arr[index].buff_obj IN
       IF obj \in DOMAIN h THEN [h EXCEPT ![obj] = content] ELSE h

\* The seeder loop of granular_notify for a notification of buffer~
\* buff_name: the first seeder linked to it takes the buffer's figures.
RECURSIVE notify_loop(_, _, _, _)
notify_loop(x, h, buff_name, index) ==
  IF index >= x.seeders_max THEN x
  ELSE LET seeder == x.seeders_arr[index]
           buff_obj == buffer_ref_getobject(h, seeder.buff_ref)
       IN IF buff_name = seeder.buff_sym /\ buff_obj # NULL
          THEN SetSeeder(x, index,
                 [seeder EXCEPT !.buff_n_frm = h[buff_obj].n_frm,
                                !.buff_n_chn = h[buff_obj].n_chn,
                                !.buff_msr = h[buff_obj].msr,
                                !.src_len = Trunc(seeder.src_len_ms * h[buff_obj].msr, 1)])
          ELSE notify_loop(x, h, buff_name, index + 1)

granular_notify(x, h, buff_name) == notify_loop(x, h, buff_name, 0)

\* 2^(-shift) for a whole number of octaves: exp(-LN2 * shift).
RECURSIVE Pow2(_)
Pow2(k) == IF k <= 0 THEN 1 ELSE 2 * Pow2(k - 1)
ShiftRatio(shift) == IF shift >= 0 THEN <<1, Pow2(shift)>> ELSE <<Pow2(-shift), 1>>

\* for (i = 0; i < poly_cnt; i++) period_cntd[i] = i * period_len / poly_cnt;
SpreadStreams(sd) ==
  [sd EXCEPT !.period_cntd =
     [i \in 0..(POLY_MAX - 1) |->
        IF i < sd.poly_cnt THEN Trunc(i * sd.period_len, sd.poly_cnt) ELSE @[i]]]

\* granular_set_seeder with nine arguments: begin, period and period_rand are
\* fractions, length_ms, shift and speed whole numbers.
granular_set_seeder(x, arg, ampl, begin, length_ms, shift, period, speed, period_rand, poly) ==
  LET index == granular_check_args(x, arg) IN
  IF index = ERR_ARG THEN x
  ELSE
  LET sd == x.seeders_arr[index]
      src_len == Trunc(length_ms * sd.buff_msr, 1)
      b0 == Trunc(begin[1] * sd.buff_n_frm, begin[2])
      b1 == IF b0 < 0 THEN 0 ELSE b0
      b2 == IF b1 + src_len > sd.buff_n_frm THEN sd.buff_n_frm - src_len ELSE b1
      shift_r == ShiftRatio(shift)
      out_len == Trunc(length_ms * shift_r[1] * x.msamplerate, shift_r[2])
      sd1 == [sd EXCEPT !.ampl = ampl,
                        !.src_begin = b2,
                        !.src_len_ms = length_ms,
                        !.src_len = src_len,
                        !.shift = shift,
                        !.shift_r = shift_r,
                        !.out_len = out_len,
                        !.period = period,
                        !.period_len = Trunc(period[1] * out_len, period[2]),
                        !.speed = speed,
                        !.period_rand = period_rand,
                        !.poly_cnt = IF Int16(poly) < 1 \/ Int16(poly) > x.poly_max
                                     THEN 1 ELSE Int16(poly)]
  IN SetSeeder(x, index, SpreadStreams(sd1))

\* granular_begin: no check of the index.
granular_begin(x, index, begin) ==
  LET sd == x.seeders_arr[index]
      b0 == Trunc(begin[1] * sd.buff_n_frm, begin[2])
      b1 == IF b0 < 0 THEN 0 ELSE b0
      b2 == IF b1 + sd.src_len > sd.buff_n_frm THEN sd.buff_n_frm - sd.src_len ELSE b1
  IN SetSeeder(x, index, [sd EXCEPT !.src_begin = b2])

\* granular_length: no check of the index.
granular_length(x, index, length_ms) ==
  LET sd == x.seeders_arr[index]
      out_len == Trunc(length_ms * sd.shift_r[1] * x.msamplerate, sd.shift_r[2])
  IN SetSeeder(x, index,
       [sd EXCEPT !.src_len_ms = length_ms,
                  !.src_len = Trunc(length_ms * sd.buff_msr, 1),
                  !.out_len = out_len,
                  !.period_len = Trunc(out_len * sd.period[1], sd.period[2])])

\* granular_period: no check of the index.
granular_period(x, index, period) ==
  LET sd == x.seeders_arr[index]
  IN SetSeeder(x, index,
       [sd EXCEPT !.period = period,
                  !.period_len = Trunc(sd.out_len * period[1], period[2])])

\* granular_focus.
granular_focus(x, arg) ==
  LET index == granular_check_args(x, arg) IN
  IF index = ERR_ARG THEN [x |-> x, bang |-> 0, hung |-> FALSE]
  ELSE [x |-> [x EXCEPT !.seeders_foc = index], bang |-> 1, hung |-> FALSE]

\* granular_ampl: no check of the index.
granular_ampl(x, index, ampl) ==
  SetSeeder(x, index, [x.seeders_arr[index] EXCEPT !.ampl = ampl])

\* granular_shift: no check of the index.
granular_shift(x, index, shift) ==
  LET sd == x.seeders_arr[index]
      shift_r == ShiftRatio(shift)
      out_len == Trunc(sd.src_len_ms * shift_r[1] * x.msamplerate, shift_r[2])
  IN SetSeeder(x, index,
       [sd EXCEPT !.shift = shift,
                  !.shift_r = shift_r,
                  !.out_len = out_len,
                  !.period_len = Trunc(out_len * sd.period[1], sd.period[2])])

\* granular_speed: no check of the index.
granular_speed(x, index, speed) ==
  SetSeeder(x, index, [x.seeders_arr[index] EXCEPT !.speed = speed])

granular_poly(x, index, poly_cnt) ==
  IF PolyRefused(x, poly_cnt) THEN x
  ELSE SetSeeder(x, index, SpreadStreams([x.seeders_arr[index] EXCEPT !.poly_cnt = poly_cnt]))

\* granular_period_rand: no check of the index.
granular_period_rand(x, index, period_rand) ==
  SetSeeder(x, index, [x.seeders_arr[index] EXCEPT !.period_rand = period_rand])

\* granular_envelope: the names the chain of comparisons knows; any other name
\* returns before env_sym is stored.
EnvSyms ==
  {"none", "rectangular", "welch", "sine", "hann", "hamming", "blackman", "nuttal",
   "blackman-nuttal", "blackman-harris", "flat top", "triangular", "trapezoidal",
   "tukey", "expodec", "rexpodec"}

granular_envelope(x, arg, env_sym) ==
  LET index == granular_check_args(x, arg) IN
  IF index = ERR_ARG THEN x
  ELSE IF env_sym \notin EnvSyms THEN x
  ELSE [x EXCEPT !.seeders_arr[index].env_sym = env_sym]

\* ======================================================================
\* granular.c: grains and granular_perform64
\* ======================================================================

\* granular_add_grain_fs. slot is the cell of grains_arr written, -1 when the
\* grain is dropped; ub says the write went outside grains_arr (the index
\* list had no empty node although grains_cnt < grains_max).
granular_add_grain_fs(x, seeder, src_offset, out_offset) ==
  IF x.grains_cnt = x.grains_max THEN [x |-> x, slot |-> -1, ub |-> FALSE]
  ELSE
  LET r == list_insert_first(x.grains_list)
      b0 == seeder.src_begin + src_offset
      b1 == IF b0 < 0 THEN 0 ELSE b0
      b2 == IF b1 + seeder.src_len > seeder.buff_n_frm
            THEN seeder.buff_n_frm - seeder.src_len ELSE b1
      grain == [index |-> seeder.index,
                ampl |-> seeder.ampl,
                src_begin |-> b2,
                src_len |-> seeder.src_len,
                out_begin |-> out_offset,
                out_len |-> seeder.out_len,
                out_cntd |-> seeder.out_len,
                src_I |-> 0, src_R |-> 0, env_I |-> 0, env_R |-> 0]
  IN IF r.ret < 0
     THEN [x |-> [x EXCEPT !.grains_cnt = @ + 1], slot |-> r.ret, ub |-> TRUE]
     ELSE [x |-> [x EXCEPT !.grains_cnt = @ + 1,
                           !.grains_list = r.l,
                           !.grains_arr[r.ret] = grain],
           slot |-> r.ret, ub |-> FALSE]

\* Variant of NextPeriod: the period is taken from the grain's length.
NextPeriod_of_out_len(seeder, U) ==
  Trunc(seeder.out_len * (seeder.period_rand[2] + seeder.period_rand[1] * U),
        seeder.period_rand[2])

\* (t_int32)(seeder->period_len * (1 + (seeder->period_rand * U))), where U is
\* the value of 2.0 * rand() / RAND_MAX - 1, a whole number here.
NextPeriod(seeder, U) ==
  Trunc(seeder.period_len * (seeder.period_rand[2] + seeder.period_rand[1] * U),
        seeder.period_rand[2])

\* Variant of sched_main_turn: a dropped grain leaves the stream as it was.
sched_main_turn_only_with_grain(x, i, U) ==
  LET seeder == x.seeders_arr[i]
      a == granular_add_grain_fs(x, seeder, 0, seeder.period_cntd[0])
      period == NextPeriod(seeder, U)
      b0 == seeder.src_begin + Trunc(period * seeder.speed * seeder.buff_msr, x.msamplerate)
      b1 == IF b0 < 0 THEN seeder.buff_n_frm - seeder.src_len ELSE b0
      b2 == IF b1 + seeder.src_len > seeder.buff_n_frm THEN 0 ELSE b1
  IN IF a.slot < 0 THEN [x |-> x, slot |-> -1, ub |-> FALSE]
     ELSE [x |-> [a.x EXCEPT !.seeders_arr[i].period_cntd[0] = @ + period,
                             !.seeders_arr[i].src_begin = b2],
           slot |-> a.slot, ub |-> a.ub]

\* One turn of the main stream's loop (lines 554-565) for seeder i.
sched_main_turn(x, i, U) ==
  LET seeder == x.seeders_arr[i]
      a == granular_add_grain_fs(x, seeder, 0, seeder.period_cntd[0])
      period == NextPeriod(seeder, U)
      b0 == seeder.src_begin + Trunc(period * seeder.speed * seeder.buff_msr, x.msamplerate)
      b1 == IF b0 < 0 THEN seeder.buff_n_frm - seeder.src_len ELSE b0
      b2 == IF b1 + seeder.src_len > seeder.buff_n_frm THEN 0 ELSE b1
  IN [x |-> [a.x EXCEPT !.seeders_arr[i].period_cntd[0] = @ + period,
                        !.seeders_arr[i].src_begin = b2],
      slot |-> a.slot, ub |-> a.ub]

\* One turn of a poly stream's loop (lines 573-577) for seeder i, stream k.
sched_poly_turn(x, i, k, U) ==
  LET seeder == x.seeders_arr[i]
      a == granular_add_grain_fs(x, seeder,
             Trunc((seeder.period_cntd[k] - seeder.period_cntd[0]) * seeder.speed
                     * seeder.buff_msr, x.msamplerate),
             seeder.period_cntd[k])
  IN [x |-> [a.x EXCEPT !.seeders_arr[i].period_cntd[k] = @ + NextPeriod(seeder, U)],
      slot |-> a.slot, ub |-> a.ub]

\* Variant of advance_cursor: the loop runs while X_R > out_len.
advance_cursor_past(R, I, len, out_len) ==
  LET r1 == R + len IN
  IF r1 <= out_len THEN [R |-> r1, I |-> I, stuck |-> FALSE]
  ELSE IF out_len <= 0 THEN [R |-> r1, I |-> I, stuck |-> TRUE]
  ELSE [R |-> ((r1 - 1) % out_len) + 1, I |-> I + ((r1 - 1) \div out_len), stuck |-> FALSE]

\* grain->X_R += len; while (grain->X_R >= out_len) { X_R -= out_len; X_I++; }
\* With out_len <= 0 the loop, once entered, never ends: stuck.
advance_cursor(R, I, len, out_len) ==
  LET r1 == R + len IN
  IF r1 < out_len THEN [R |-> r1, I |-> I, stuck |-> FALSE]
  ELSE IF out_len <= 0 THEN [R |-> r1, I |-> I, stuck |-> TRUE]
  ELSE [R |-> r1 % out_len, I |-> I + (r1 \div out_len), stuck |-> FALSE]

\* The sample loop of one grain (lines 623-638): n samples are left in the
\* block, k samples were written so far. c holds the locals src_len, out_len
\* and env_len. The loop ends when n or out_cntd reaches zero; when both are
\* negative neither does.
\* read is the grain as it stood when the last of the samples was computed:
\* its cursors are the places the envelope table and the source were read at.
RECURSIVE render_loop(_, _, _, _)
render_loop(grain, n, c, k) ==
  IF n = 0 \/ grain.out_cntd = 0
  THEN [grain |-> grain, k |-> k, stuck |-> FALSE, read |-> grain]
  ELSE IF n < 0 /\ grain.out_cntd < 0
  THEN [grain |-> grain, k |-> k, stuck |-> TRUE, read |-> grain]
  ELSE IF n >= 2
  THEN \* the first half of the samples, then the rest
       LET half == render_loop(grain, n \div 2, c, k)
           rest == render_loop(half.grain, n - (n \div 2), c, half.k)
       IN IF half.stuck THEN half
          ELSE IF rest.k = half.k THEN [rest EXCEPT !.read = half.read]
          ELSE rest
  ELSE
  LET s == advance_cursor(grain.src_R, grain.src_I, c.src_len, c.out_len)
      e == advance_cursor(grain.env_R, grain.env_I, c.env_len, c.out_len)
      more == render_loop([grain EXCEPT !.src_R = s.R, !.src_I = s.I,
                                        !.env_R = e.R, !.env_I = e.I,
                                        !.out_cntd = @ - 1],
                          n - 1, c, k + 1)
  IN IF s.stuck THEN [grain |-> grain, k |-> k + 1, stuck |-> TRUE, read |-> grain]
     ELSE IF e.stuck
     THEN [grain |-> [grain EXCEPT !.src_R = s.R, !.src_I = s.I], k |-> k + 1,
           stuck |-> TRUE, read |-> grain]
     ELSE IF more.k = k + 1 THEN [more EXCEPT !.read = grain]
     ELSE more

\* Variant of block_rest: the grain's offset in the block is ignored.
block_rest_whole_block(grain, sampleframes) == sampleframes
\* n = sampleframes - grain->out_begin: what is left of the block for a grain.
block_rest(grain, sampleframes) == sampleframes - grain.out_begin

\* One turn of the grain loop (lines 606-653) with the cursor at `node`:
\* the grain is rendered, then kept (the cursor moves on) or retired (the
\* cursor stays). k is the number of samples written, retired whether the
\* grain was unlinked, stuck whether a cursor loop never ended.
render_grain(x, node, sampleframes) ==
  LET g == x.grains_list.array[node]
      grain == x.grains_arr[g]
      c == [src_len |-> grain.src_len - 1,
            out_len |-> grain.out_len - 1,
            env_len |-> x.env_n_frm - 1]
      r == render_loop(grain, block_rest(grain, sampleframes), c, 0)
      done == [r.grain EXCEPT !.out_begin = 0]
      x1 == [x EXCEPT !.grains_arr[g] = done]
  IN IF r.stuck
     THEN [x |-> [x EXCEPT !.grains_arr[g] = r.grain], node |-> node, slot |-> g,
           k |-> r.k, retired |-> FALSE, stuck |-> TRUE, read |-> r.read]
     ELSE IF done.out_cntd # 0
     THEN [x |-> x1, node |-> x.grains_list.array[node], slot |-> g,
           k |-> r.k, retired |-> FALSE, stuck |-> FALSE, read |-> r.read]
     ELSE [x |-> [x1 EXCEPT !.grains_cnt = @ - 1,
                            !.grains_list = list_remove_node(x.grains_list, node).l],
           node |-> node, slot |-> g, k |-> r.k, retired |-> TRUE, stuck |-> FALSE,
           read |-> r.read]

\* ======================================================================
\* Specifications: what they share
\* ======================================================================

\* No seeder is being scheduled.
NoBlock == [c |-> 0, k |-> 0, n |-> 0]
\* The turn of the seeder in cell `node` of the seeder list begins.
BlockOf(x, node) ==
  IF x.seeders_list.array[node] = LIST_END THEN NoBlock
  ELSE [c |-> x.seeders_arr[x.seeders_list.array[node]].period_cntd[0], k |-> 0, n |-> 0]

\* Where the blocks are counted (blk has a field b), the count goes on with
\* every call of granular_perform64, up to MaxCount.
MaxCount == 5
Counted(old, new, calls) ==
  IF "at" \in DOMAIN old
  THEN [c |-> new.c, k |-> new.k, n |-> new.n,
        b |-> IF old.b + calls > MaxCount THEN MaxCount ELSE old.b + calls,
        at |-> old.at]
  ELSE IF "b" \in DOMAIN old
  THEN [c |-> new.c, k |-> new.k, n |-> new.n,
        b |-> IF old.b + calls > MaxCount THEN MaxCount ELSE old.b + calls]
  ELSE new

\* Where the output is followed as one run of samples over the blocks (blk
\* has a field at), at[slot] is the place in that run of the first sample of
\* the grain in `slot`: the blocks before this one (b counts this one) times
\* the block size, plus the grain's offset in the block.
Placed(new, x, slot, sampleframes) ==
  IF "at" \in DOMAIN new /\ slot >= 0
  THEN [new EXCEPT !.at[slot] = (new.b - 1) * sampleframes + x.grains_arr[slot].out_begin]
  ELSE new

\* Where commands arrive while granular_perform64 runs (blk has a field race),
\* the pass is followed: raced says a command arrived during the pass, done
\* lists the seeders whose streams the pass has run, stay holds the seeders
\* that were in the active list at the start of the pass and were not touched
\* by a command since.
PassBegun(new, old, x) ==
  IF "race" \in DOMAIN old
  THEN [c |-> new.c, k |-> new.k, n |-> new.n,
        race |-> [raced |-> FALSE, done |-> <<>>,
                  stay |-> Range(UsedSeq(x.seeders_list))]]
  ELSE new
SeederPassed(new, old, x, i) ==
  IF "race" \in DOMAIN old
  THEN [c |-> new.c, k |-> new.k, n |-> new.n,
        race |-> IF x.seeders_arr[i].is_on
                 THEN [old.race EXCEPT !.done = Append(@, i)] ELSE old.race]
  ELSE new

\* Contents of a buffer~: no audio yet, or a loaded file.
NoAudio == [n_frm |-> 0, n_chn |-> 1, msr |-> 1]
Audio(n_frm, msr) == [n_frm |-> n_frm, n_chn |-> 1, msr |-> msr]
\* A host without any buffer~.
NoBuffers == [n \in {} |-> NoAudio]

\* The granular~ variables in the list specification, which has no object.
GranularUnused ==
  /\ gx = granular_new(1, 1, 1)
  /\ host = NoBuffers
  /\ pc = "idle"
  /\ cursor = 0
  /\ strm = 0
  /\ n_smp = 1
  /\ rend = [g \in 0..(gx.grains_max - 1) |-> 0]
  /\ blk = NoBlock
  /\ obs = [ev |-> "new", bang |-> 0]

\* The list variables in the specifications of the object.
ListUnused ==
  /\ lst = list_new(1)
  /\ lpre = lst
  /\ lop = <<"list_new", 0, LIST_END, "list_new", LIST_END>>
  /\ lret = 0
  /\ nfirst = 0

\* A command that returns (or never does: pc says in which loop it stays).
Command(name, args, r) ==
  /\ pc = "idle"
  /\ r.x.seeders_cnt \in (0 - CntSlack)..(r.x.seeders_max + CntSlack)
  /\ gx' = r.x
  /\ pc' = IF r.hung THEN name ELSE "idle"
  /\ obs' = [ev |-> name, bang |-> r.bang, args |-> args]
  /\ UNCHANGED <<cursor, strm, n_smp, rend, blk, lvars>>

\* ======================================================================
\* The specification of the control commands on the seeder registry
\* ======================================================================
\* The host has one buffer~ "a" (with or without audio) and none called "zz".
CtlSyms == {sym_empty, "a", "zz"}

CtlInit ==
  /\ gx = granular_new(CtlSeeders, 1, 1)
  /\ host \in {NoBuffers, [a |-> NoAudio], [a |-> Audio(4, 1)]}
  /\ pc = "idle"
  /\ cursor = 0
  /\ strm = 0
  /\ n_smp = 1
  /\ rend = [g \in 0..(gx.grains_max - 1) |-> 0]
  /\ blk = NoBlock
  /\ obs = [ev |-> "new", bang |-> 0]
  /\ ListUnused

\* The same commands on an object with a single seeder.
OneInit ==
  /\ gx = granular_new(1, 1, 1)
  /\ host \in {NoBuffers, [a |-> NoAudio], [a |-> Audio(4, 1)]}
  /\ pc = "idle"
  /\ cursor = 0
  /\ strm = 0
  /\ n_smp = 1
  /\ rend = [g \in 0..(gx.grains_max - 1) |-> 0]
  /\ blk = NoBlock
  /\ obs = [ev |-> "new", bang |-> 0]
  /\ ListUnused

CmdBuffer ==
  \E index \in 0..(gx.seeders_max - 1), sym \in CtlSyms :
     /\ Command("buffer", <<index, sym>>,
                [x |-> granular_buffer(gx, host, index, sym), bang |-> 0, hung |-> FALSE])
     /\ UNCHANGED host

\* The file command: the file read into the buffer has audio, or cannot be
\* read and leaves the buffer as it was.
CmdFile ==
  \E index \in 0..(gx.seeders_max - 1), ok \in BOOLEAN :
     /\ Command("file", <<index>>, granular_file(gx, index))
     /\ host' = IF ok THEN host_read(gx, host, index, Audio(4, 1)) ELSE host

\* The buffer~ "a" notifies the object (after a read, or any other change).
HostNotify ==
  /\ Command("notify", <<"a">>,
             [x |-> granular_notify(gx, host, "a"), bang |-> 0, hung |-> FALSE])
  /\ UNCHANGED host

CmdSeederOn ==
  \E index \in -1..gx.seeders_max :
     /\ Command("seeder_on", <<index>>, granular_seeder_on(gx, index))
     /\ UNCHANGED host

CmdSeederOff ==
  \E index \in -1..gx.seeders_max :
     /\ Command("seeder_off", <<index>>, granular_seeder_off(gx, index))
     /\ UNCHANGED host

CmdAllOn == Command("all_on", <<>>, granular_all_on(gx)) /\ UNCHANGED host

CmdAllOff == Command("all_off", <<>>, granular_all_off(gx)) /\ UNCHANGED host

CtlNext ==
  \/ CmdBuffer \/ CmdFile \/ HostNotify
  \/ CmdSeederOn \/ CmdSeederOff \/ CmdAllOn \/ CmdAllOff

\* ======================================================================
\* granular_perform64, one loop turn per step
\* ======================================================================
\* Values of 2.0 * rand() / RAND_MAX - 1: both ends of [-1, 1] and the middle.
Draws == {-1, 0, 1}

\* The seeder under the cursor of the seeder loop (LIST_END: the loop is over).
CursorSeeder == gx.seeders_list.array[cursor]

PerformBegin ==
  /\ pc = "idle"
  /\ pc' = "seeders"
  /\ cursor' = first_used(gx.seeders_list)
  /\ strm' = 0
  /\ blk' = PassBegun(Counted(blk, BlockOf(gx, first_used(gx.seeders_list)), 1), blk, gx)
  /\ obs' = [ev |-> "perform", bang |-> 0]
  /\ UNCHANGED <<gx, host, n_smp, rend, lvars>>

\* What a turn of a stream's loop leaves (U is the value drawn for the next
\* period): the grain (if any) starts with no sample written; a write outside grains_arr is undefined behaviour, which
\* the model does not follow further.
Spawned(r, U) ==
  /\ gx' = r.x
  /\ pc' = IF r.ub THEN "undefined" ELSE pc
  /\ rend' = IF r.slot >= 0 THEN [rend EXCEPT ![r.slot] = 0] ELSE rend
  /\ blk' = Placed(IF strm # 0 \/ blk.k > n_smp THEN blk
                   ELSE [blk EXCEPT !.k = @ + 1, !.n = IF r.slot >= 0 THEN @ + 1 ELSE @],
                   r.x, IF r.ub THEN -1 ELSE r.slot, n_smp)
  /\ obs' = [ev |-> "spawn", bang |-> 0, slot |-> r.slot, U |-> U]
  /\ UNCHANGED <<host, cursor, strm, n_smp, lvars>>

\* while (seeder->period_cntd[0] < n_smp) { ... }
SchedSpawnMain ==
  /\ pc = "seeders"
  /\ CursorSeeder # LIST_END
  /\ gx.seeders_arr[CursorSeeder].is_on
  /\ strm = 0
  /\ gx.seeders_arr[CursorSeeder].period_cntd[0] < n_smp
  /\ \E U \in Draws : Spawned(sched_main_turn(gx, CursorSeeder, U), U)

\* while (seeder->period_cntd[i] < n_smp) { ... }
SchedSpawnPoly ==
  /\ pc = "seeders"
  /\ CursorSeeder # LIST_END
  /\ gx.seeders_arr[CursorSeeder].is_on
  /\ strm >= 1
  /\ strm < gx.seeders_arr[CursorSeeder].poly_cnt
  /\ gx.seeders_arr[CursorSeeder].period_cntd[strm] < n_smp
  /\ \E U \in Draws : Spawned(sched_poly_turn(gx, CursorSeeder, strm, U), U)

\* A stream's loop ends: on to the next stream. A poly stream's countdown is
\* set for the next block here, the main stream's after the last poly stream.
SchedStreamDone ==
  /\ pc = "seeders"
  /\ CursorSeeder # LIST_END
  /\ gx.seeders_arr[CursorSeeder].is_on
  /\ strm = 0 \/ strm < gx.seeders_arr[CursorSeeder].poly_cnt
  /\ gx.seeders_arr[CursorSeeder].period_cntd[strm] >= n_smp
  /\ gx' = IF strm = 0 THEN gx
           ELSE [gx EXCEPT !.seeders_arr[CursorSeeder].period_cntd[strm] = @ - n_smp]
  /\ strm' = strm + 1
  /\ obs' = [ev |-> "stream", bang |-> 0]
  /\ UNCHANGED <<host, pc, cursor, n_smp, rend, blk, lvars>>

\* The seeder is off, or all its streams are done: on to the next seeder.
SchedSeederDone ==
  /\ pc = "seeders"
  /\ CursorSeeder # LIST_END
  /\ \/ ~gx.seeders_arr[CursorSeeder].is_on
     \/ strm >= 1 /\ strm >= gx.seeders_arr[CursorSeeder].poly_cnt
  /\ gx' = IF gx.seeders_arr[CursorSeeder].is_on
           THEN [gx EXCEPT !.seeders_arr[CursorSeeder].period_cntd[0] = @ - n_smp]
           ELSE gx
  /\ cursor' = CursorSeeder
  /\ strm' = 0
  /\ blk' = SeederPassed(Counted(blk, BlockOf(gx, CursorSeeder), 0), blk, gx, CursorSeeder)
  /\ obs' = [ev |-> "seeder", bang |-> 0, index |-> CursorSeeder, blk |-> blk]
  /\ UNCHANGED <<host, pc, n_smp, rend, lvars>>

\* The seeder loop ends; the output block is cleared; the grain loop starts.
SchedDone ==
  /\ pc = "seeders"
  /\ CursorSeeder = LIST_END
  /\ pc' = "grains"
  /\ cursor' = first_used(gx.grains_list)
  /\ strm' = 0
  /\ obs' = [ev |-> "clear", bang |-> 0]
  /\ UNCHANGED <<gx, host, n_smp, rend, blk, lvars>>

\* One turn of the grain loop. env_I and src_frame are the places of the last
\* sample's reads: env_values[env_I] and env_values[env_I + 1], the frames
\* src_frame and src_frame + 1 of the source. buffer_locksamples is called before the sample
\* loop and buffer_unlocksamples after it: a turn whose sample loop never ends
\* does not get to the unlock. buff_src is what buffer_locksamples returned:
\* the sample loop reads buff_src[ind] without a test, and what a read through
\* a null pointer does is undefined.
GrainStep ==
  /\ pc = "grains"
  /\ gx.grains_list.array[cursor] # LIST_END
  /\ LET r == render_grain(gx, cursor, n_smp)
         seeder == gx.seeders_arr[gx.grains_arr[r.slot].index]
         buff_src == buffer_locksamples(host, seeder.buff_obj)
     IN
       /\ gx' = r.x
       /\ cursor' = r.node
       /\ pc' = IF r.stuck THEN "cursor_loop"
                ELSE IF buff_src = NULL /\ r.k > 0 THEN "undefined"
                ELSE pc
       /\ rend' = [rend EXCEPT ![r.slot] = @ + r.k]
       /\ obs' = [ev |-> "grain", bang |-> 0, slot |-> r.slot, k |-> r.k,
                  retired |-> r.retired, locks |-> 1,
                  unlocks |-> IF r.stuck THEN 0 ELSE 1,
                  env_I |-> r.read.env_I,
                  src_frame |-> r.read.src_begin + r.read.src_I,
                  out_begin |-> gx.grains_arr[r.slot].out_begin,
                  buff_src |-> buff_src]
  /\ UNCHANGED <<host, strm, n_smp, blk, lvars>>

\* The grain loop ends; the block is folded and the bounds of the seeder in
\* focus are sent out; granular_perform64 returns.
RenderDone ==
  /\ pc = "grains"
  /\ gx.grains_list.array[cursor] = LIST_END
  /\ pc' = "idle"
  /\ cursor' = 0
  /\ obs' = [ev |-> "perform_end", bang |-> 0]
  /\ UNCHANGED <<gx, host, strm, n_smp, rend, blk, lvars>>

\* seeder_on and seeder_off with the index of a seeder (the specification of
\* the control commands sends every index).
EngSeederOn ==
  \E index \in 0..(gx.seeders_max - 1) :
     /\ Command("seeder_on", <<index>>, granular_seeder_on(gx, index))
     /\ UNCHANGED host

EngSeederOff ==
  \E index \in 0..(gx.seeders_max - 1) :
     /\ Command("seeder_off", <<index>>, granular_seeder_off(gx, index))
     /\ UNCHANGED host

Perform ==
  \/ PerformBegin
  \/ SchedSpawnMain \/ SchedSpawnPoly \/ SchedStreamDone \/ SchedSeederDone \/ SchedDone
  \/ GrainStep \/ RenderDone

\* ======================================================================
\* The specification of the engine: one seeder, set up once, switched on
\* and off while the host runs the audio
\* ======================================================================
Periods == {<<0, 1>>, <<1, 2>>, <<1, 1>>}
PeriodRands == {<<0, 1>>, <<1, 2>>}
Speeds == {0, 1}
Polys == {1, 2}

\* The object after: buffer i a, then set i 1. begin length 0 period speed
\* period_rand poly, with the buffer~ "a" holding audio.
Linked(x, h, i, begin, length_ms, period, speed, period_rand, poly) ==
  granular_set_seeder(granular_buffer(x, h, i, "a"), i, 1, begin, length_ms, 0,
                      period, speed, period_rand, poly)

Init ==
  /\ host = [a |-> Audio(SrcFrames, 1)]
  /\ \E length_ms \in 1..MaxLen, period \in Periods, speed \in Speeds,
        period_rand \in PeriodRands, poly \in Polys :
       gx = Linked(granular_new(1, MaxGrains, 1), host, 0, <<0, 1>>, length_ms,
                   period, speed, period_rand, poly)
  /\ pc = "idle"
  /\ cursor = 0
  /\ strm = 0
  /\ n_smp \in 1..MaxBlock
  /\ rend = [g \in 0..(gx.grains_max - 1) |-> 0]
  /\ blk = NoBlock
  /\ obs = [ev |-> "new", bang |-> 0]
  /\ ListUnused

Next == Perform \/ EngSeederOn \/ EngSeederOff

\* ======================================================================
\* The specification of the file command while grains play: two seeders
\* ======================================================================
FlushLens == {2, 3}

FlushInit ==
  /\ host = [a |-> Audio(SrcFrames, 1)]
  /\ \E l0 \in FlushLens, l1 \in FlushLens, poly \in Polys :
       gx = Linked(Linked(granular_new(2, MaxGrains, 1), host, 0, <<0, 1>>, l0,
                          <<1, 1>>, 0, <<0, 1>>, poly),
                   host, 1, <<0, 1>>, l1, <<1, 1>>, 0, <<0, 1>>, 1)
  /\ pc = "idle"
  /\ cursor = 0
  /\ strm = 0
  /\ n_smp = 1
  /\ rend = [g \in 0..(gx.grains_max - 1) |-> 0]
  /\ blk = NoBlock
  /\ obs = [ev |-> "new", bang |-> 0]
  /\ ListUnused

\* The file command, the seeder it names kept for the record; the file is
\* read into the buffer~ or cannot be read.
FlushFile ==
  \E index \in 0..(gx.seeders_max - 1), ok \in BOOLEAN :
     /\ pc = "idle"
     /\ gx' = granular_file(gx, index).x
     /\ host' = IF ok THEN host_read(gx, host, index, Audio(SrcFrames, 1)) ELSE host
     /\ obs' = [ev |-> "file", bang |-> 1, index |-> index,
                was_on |-> gx.seeders_arr[index].is_on]
     /\ UNCHANGED <<pc, cursor, strm, n_smp, rend, blk, lvars>>

FlushNext == Perform \/ EngSeederOn \/ EngSeederOff \/ FlushFile

\* ======================================================================
\* The specification of the source window: one seeder, its window moved by
\* the commands, by the buffer~ and by the scheduler
\* ======================================================================
WinBegins == {<<0, 1>>, <<1, 2>>}
WinLens == {1, 3}
WinSpeeds == {-1, 1}

WinInit ==
  /\ host = [a |-> Audio(SrcFrames, 1)]
  /\ gx = Linked(granular_new(1, 1, 1), host, 0, <<0, 1>>, 1, <<1, 1>>, 1, <<0, 1>>, 1)
  /\ pc = "idle"
  /\ cursor = 0
  /\ strm = 0
  /\ n_smp = 1
  /\ rend = [g \in 0..(gx.grains_max - 1) |-> 0]
  /\ blk = NoBlock
  /\ obs = [ev |-> "new", bang |-> 0]
  /\ ListUnused

WinSetSeeder ==
  \E begin \in WinBegins, length_ms \in WinLens, speed \in WinSpeeds, poly \in Polys :
     /\ Command("set", <<0, begin, length_ms, speed, poly>>,
                [x |-> granular_set_seeder(gx, 0, 1, begin, length_ms, 0, <<1, 1>>,
                                           speed, <<0, 1>>, poly),
                 bang |-> 0, hung |-> FALSE])
     /\ UNCHANGED host

WinBegin ==
  \E begin \in WinBegins :
     /\ Command("begin", <<0, begin>>,
                [x |-> granular_begin(gx, 0, begin), bang |-> 0, hung |-> FALSE])
     /\ UNCHANGED host

WinLength ==
  \E length_ms \in WinLens :
     /\ Command("length", <<0, length_ms>>,
                [x |-> granular_length(gx, 0, length_ms), bang |-> 0, hung |-> FALSE])
     /\ UNCHANGED host

WinBuffer ==
  /\ Command("buffer", <<>>,
             [x |-> granular_buffer(gx, host, 0, "a"), bang |-> 0, hung |-> FALSE])
  /\ UNCHANGED host

\* The file command: the file read into the buffer~ is as long as the audio
\* the buffer~ held at first, or half as long.
WinFile ==
  \E n_frm \in {SrcFrames \div 2, SrcFrames} :
     /\ Command("file", <<>>, granular_file(gx, 0))
     /\ host' = host_read(gx, host, 0, Audio(n_frm, 1))

WinNext ==
  \/ Perform \/ EngSeederOn
  \/ WinSetSeeder \/ WinBegin \/ WinLength
  \/ WinBuffer \/ WinFile \/ HostNotify

\* ======================================================================
\* The specification of the finisher: the fold of an accumulated block
\* ======================================================================
\* Sample values are counted in tenths: Unit is the sample value 1.0.
Unit == 10

\* if (*out > 1) { *out = 2 - *out; }  if (*out < -1) { *out = -2 - *out; }
fold(v) ==
  LET v1 == IF v > Unit THEN 2 * Unit - v ELSE v
  IN IF v1 < -Unit THEN -2 * Unit - v1 ELSE v1

\* The accumulated block of two samples, before the fold.
FoldInit ==
  /\ host = NoBuffers
  /\ gx = granular_new(1, 1, 1)
  /\ pc = "grains"
  /\ cursor = first_used(gx.grains_list)
  /\ strm = 0
  /\ n_smp = 2
  /\ rend = [g \in 0..(gx.grains_max - 1) |-> 0]
  /\ blk = NoBlock
  /\ \E v0 \in (-MaxAmp * Unit)..(MaxAmp * Unit), v1 \in {-Unit - 3, Unit \div 2, Unit + 2} :
       obs = [ev |-> "clear", bang |-> 0, out |-> <<v0, v1>>]
  /\ ListUnused

\* The end of granular_perform64 with the samples of the block: the grain
\* loop is over, every sample is folded.
FoldBlock ==
  /\ pc = "grains"
  /\ gx.grains_list.array[cursor] = LIST_END
  /\ obs.ev = "clear"
  /\ pc' = "idle"
  /\ cursor' = 0
  /\ obs' = [ev |-> "perform_end", bang |-> 0, acc |-> obs.out,
             out |-> [i \in DOMAIN obs.out |-> fold(obs.out[i])]]
  /\ UNCHANGED <<gx, host, strm, n_smp, rend, blk, lvars>>

FoldNext == FoldBlock

\* ======================================================================
\* The argument specification: every command that takes a seeder index, with
\* indices inside and outside the seeder array
\* ======================================================================

ArgIndexes == {-1, 0, 1}
ArgCommands ==
  {"set_seeder", "seeder_on", "seeder_off", "focus", "ampl", "begin", "length",
   "shift", "period", "speed", "poly", "period_rand", "file", "envelope"}
InArray(x, index) == index >= 0 /\ index < x.seeders_max

\* x->seeders_arr[index].field = ... with the index outside the array is
\* undefined. The outcomes taken here: the store lands in memory next to the
\* array that is not a seeder ("heap"), or the access faults ("fault").
WildOutcomes == {"heap", "fault"}

ArgInit ==
  /\ host = [a |-> Audio(SrcFrames, 1)]
  /\ gx = granular_buffer(granular_new(1, 1, 1), host, 0, "a")
  /\ pc = "idle"
  /\ cursor = 0
  /\ strm = 0
  /\ n_smp = 1
  /\ rend = [g \in 0..(gx.grains_max - 1) |-> 0]
  /\ blk = NoBlock
  /\ obs = [ev |-> "new", bang |-> 0]
  /\ ListUnused

\* A command that calls granular_check_args first.
Checked(name, args, r) == Command(name, args, r) /\ UNCHANGED host

\* A command that indexes seeders_arr with its first argument as it comes;
\* stores says whether the command gets as far as the array, after is the
\* object after a store inside the array.
Unchecked(name, args, stores, after) ==
  IF InArray(gx, args[1]) \/ ~stores
  THEN /\ Command(name, args,
                  [x |-> IF stores THEN after ELSE gx, bang |-> 0, hung |-> FALSE])
       /\ UNCHANGED host
  ELSE /\ pc = "idle"
       /\ \E hit \in WildOutcomes :
            /\ pc' = IF hit = "fault" THEN "undefined" ELSE "idle"
            /\ obs' = [ev |-> name, bang |-> 0, args |-> args, wild |-> hit]
       /\ UNCHANGED <<gx, host, cursor, strm, n_smp, rend, blk, lvars>>

ArgSetSeeder ==
  \E index \in ArgIndexes, length_ms \in {3} :
     Checked("set_seeder", <<index, length_ms>>,
             [x |-> granular_set_seeder(gx, index, 2, <<1, 2>>, length_ms, 1, <<1, 2>>,
                                        0, <<1, 2>>, 2),
              bang |-> 0, hung |-> FALSE])

ArgSeederOn ==
  \E index \in ArgIndexes : Checked("seeder_on", <<index>>, granular_seeder_on(gx, index))

ArgSeederOff ==
  \E index \in ArgIndexes : Checked("seeder_off", <<index>>, granular_seeder_off(gx, index))

ArgFocus ==
  \E index \in ArgIndexes : Checked("focus", <<index>>, granular_focus(gx, index))

ArgFile ==
  \E index \in ArgIndexes :
     /\ Command("file", <<index>>, granular_file(gx, index))
     /\ host' = IF InArray(gx, index)
                THEN host_read(gx, host, index, Audio(SrcFrames, 1)) ELSE host

ArgEnvelope ==
  \E index \in ArgIndexes, env_sym \in {"sine", "square"} :
     Checked("envelope", <<index, env_sym>>,
             [x |-> granular_envelope(gx, index, env_sym), bang |-> 0, hung |-> FALSE])

ArgAmpl ==
  \E index \in ArgIndexes, ampl \in {2} :
     Unchecked("ampl", <<index, ampl>>, TRUE, IF InArray(gx, index) THEN granular_ampl(gx, index, ampl) ELSE gx)

ArgBegin ==
  \E index \in ArgIndexes, begin \in {<<1, 2>>} :
     Unchecked("begin", <<index, begin>>, TRUE, IF InArray(gx, index) THEN granular_begin(gx, index, begin) ELSE gx)

ArgLength ==
  \E index \in ArgIndexes, length_ms \in {3} :
     Unchecked("length", <<index, length_ms>>, TRUE,
               IF InArray(gx, index) THEN granular_length(gx, index, length_ms) ELSE gx)

ArgShift ==
  \E index \in ArgIndexes, shift \in {1} :
     Unchecked("shift", <<index, shift>>, TRUE, IF InArray(gx, index) THEN granular_shift(gx, index, shift) ELSE gx)

ArgPeriod ==
  \E index \in ArgIndexes, period \in {<<1, 2>>} :
     Unchecked("period", <<index, period>>, TRUE,
               IF InArray(gx, index) THEN granular_period(gx, index, period) ELSE gx)

ArgSpeed ==
  \E index \in ArgIndexes, speed \in {0} :
     Unchecked("speed", <<index, speed>>, TRUE, IF InArray(gx, index) THEN granular_speed(gx, index, speed) ELSE gx)

ArgPoly ==
  \E index \in ArgIndexes, poly_cnt \in {0, 2} :
     Unchecked("poly", <<index, poly_cnt>>, ~PolyRefused(gx, poly_cnt),
               IF InArray(gx, index) THEN granular_poly(gx, index, poly_cnt) ELSE gx)

ArgPeriodRand ==
  \E index \in ArgIndexes, period_rand \in {<<1, 2>>} :
     Unchecked("period_rand", <<index, period_rand>>, TRUE,
               IF InArray(gx, index) THEN granular_period_rand(gx, index, period_rand) ELSE gx)

ArgNext ==
  \/ ArgSetSeeder \/ ArgSeederOn \/ ArgSeederOff \/ ArgFocus \/ ArgAmpl \/ ArgBegin
  \/ ArgLength \/ ArgShift \/ ArgPeriod \/ ArgSpeed \/ ArgPoly \/ ArgPeriodRand
  \/ ArgFile \/ ArgEnvelope

\* ======================================================================
\* The length specification: one seeder whose length and shift are set to
\* any number, also while it is on and the host runs the audio
\* ======================================================================
LenLens == {-1, 0, 2}
LenShifts == {0, 1}

\* With a negative period_len a stream accumulator falls without end; the
\* behaviours are followed down to -MaxBlock.
LenCapped ==
  \A i \in 0..(gx.seeders_max - 1), k \in 0..(POLY_MAX - 1) :
     gx.seeders_arr[i].period_cntd[k] >= 0 - MaxBlock

LenInit ==
  /\ host = [a |-> Audio(SrcFrames, 1)]
  /\ \E length_ms \in LenLens, period \in {<<0, 1>>, <<1, 1>>} :
       gx = Linked(granular_new(1, MaxGrains, 1), host, 0, <<0, 1>>, length_ms,
                   period, 1, <<0, 1>>, 1)
  /\ pc = "idle"
  /\ cursor = 0
  /\ strm = 0
  /\ n_smp \in 1..MaxBlock
  /\ rend = [g \in 0..(gx.grains_max - 1) |-> 0]
  /\ blk = NoBlock
  /\ obs = [ev |-> "new", bang |-> 0]
  /\ ListUnused

LenLength ==
  \E length_ms \in LenLens :
     /\ Command("length", <<0, length_ms>>,
                [x |-> granular_length(gx, 0, length_ms), bang |-> 0, hung |-> FALSE])
     /\ UNCHANGED host

LenShift ==
  \E shift \in LenShifts :
     /\ Command("shift", <<0, shift>>,
                [x |-> granular_shift(gx, 0, shift), bang |-> 0, hung |-> FALSE])
     /\ UNCHANGED host

LenPerform == Perform /\ LenCapped'

LenNext == LenPerform \/ EngSeederOn \/ LenLength \/ LenShift

\* ======================================================================
\* The stream specification: one seeder whose number of streams is set to
\* any number, while the host runs the audio
\* ======================================================================
PolyArgs == {-1, 0, 1, 2, POLY_MAX, POLY_MAX + 1, 65537}

\* (t_int16)atom_getfloat(argv + 1): a number a t_int16 can hold is kept; the
\* conversion of any other is undefined, and gives some t_int16.
CastFloat16(v) ==
  IF v >= -32768 /\ v <= 32767 THEN {v} ELSE {-32768, 0, Int16(v), POLY_MAX + 1, 32767}

PolyInit ==
  /\ host = [a |-> Audio(SrcFrames, 1)]
  /\ gx = Linked(granular_new(1, 1, 1), host, 0, <<0, 1>>, 2, <<1, 1>>, 1, <<0, 1>>, 1)
  /\ pc = "idle"
  /\ cursor = 0
  /\ strm = 0
  /\ n_smp = 1
  /\ rend = [g \in 0..(gx.grains_max - 1) |-> 0]
  /\ blk = NoBlock
  /\ obs = [ev |-> "new", bang |-> 0]
  /\ ListUnused

PolySetSeeder ==
  \E poly \in PolyArgs :
     /\ Command("set_seeder", <<0, poly>>,
                [x |-> granular_set_seeder(gx, 0, 1, <<0, 1>>, 2, 0, <<1, 1>>, 1, <<0, 1>>, poly),
                 bang |-> 0, hung |-> FALSE])
     /\ UNCHANGED host

PolyPoly ==
  \E poly \in PolyArgs :
     \E poly_cnt \in CastFloat16(poly) :
        /\ Command("poly", <<0, poly>>,
                   [x |-> granular_poly(gx, 0, poly_cnt), bang |-> 0, hung |-> FALSE])
        /\ UNCHANGED host

PolyNext == Perform \/ EngSeederOn \/ PolySetSeeder \/ PolyPoly

\* ======================================================================
\* The scenario specification: one seeder with one stream or two, a period of
\* 0.37 of an output length of 200 samples, no random part, blocks of 64
\* samples
\* ======================================================================
SceneInit ==
  /\ host = [a |-> Audio(400, 1)]
  /\ \E poly \in Polys :
       gx = granular_seeder_on(
              Linked(granular_new(1, 5, 1), host, 0, <<0, 1>>, 200, <<37, 100>>, 1,
                     <<0, 1>>, poly), 0).x
  /\ pc = "idle"
  /\ cursor = 0
  /\ strm = 0
  /\ n_smp = 64
  /\ rend = [g \in 0..(gx.grains_max - 1) |-> 0]
  /\ blk = [c |-> 0, k |-> 0, n |-> 0, b |-> 0]
  /\ obs = [ev |-> "new", bang |-> 0]
  /\ ListUnused

SceneNext == Perform

\* ======================================================================
\* The registry specification: three seeders, some with a loaded buffer~ and
\* some without any, switched on and off one by one and all at once
\* ======================================================================
RECURSIVE LinkSeeders(_, _, _)
LinkSeeders(x, h, S) ==
  IF S = {} THEN x
  ELSE LET i == CHOOSE i \in S : TRUE
       IN LinkSeeders(granular_buffer(x, h, i, "a"), h, S \ {i})

RegInit ==
  /\ host = [a |-> Audio(SrcFrames, 1)]
  /\ \E S \in SUBSET (0..2) : gx = LinkSeeders(granular_new(3, 1, 1), host, S)
  /\ pc = "idle"
  /\ cursor = 0
  /\ strm = 0
  /\ n_smp = 1
  /\ rend = [g \in 0..(gx.grains_max - 1) |-> 0]
  /\ blk = NoBlock
  /\ obs = [ev |-> "new", bang |-> 0]
  /\ ListUnused

\* A command; seeders_cnt, which the commands can make drift from the length
\* of the active list, is followed within seeders_max of its range.
RegDo(name, args, r) ==
  /\ pc = "idle"
  /\ r.x.seeders_cnt \in (0 - r.x.seeders_max)..(2 * r.x.seeders_max)
  /\ gx' = r.x
  /\ pc' = IF r.hung THEN name ELSE "idle"
  /\ obs' = [ev |-> name, bang |-> r.bang, args |-> args]
  /\ UNCHANGED <<host, cursor, strm, n_smp, rend, blk, lvars>>

RegSeederOn ==
  \E index \in 0..(gx.seeders_max - 1) :
     RegDo("seeder_on", <<index>>, granular_seeder_on(gx, index))

RegSeederOff ==
  \E index \in 0..(gx.seeders_max - 1) :
     RegDo("seeder_off", <<index>>, granular_seeder_off(gx, index))

\* all_on; the active list before the call is kept as the event's argument.
RegAllOn == RegDo("all_on", <<Range(UsedSeq(gx.seeders_list))>>, granular_all_on(gx))

RegAllOff == RegDo("all_off", <<>>, granular_all_off(gx))

RegNext == RegSeederOn \/ RegSeederOff \/ RegAllOn \/ RegAllOff

\* ======================================================================
\* The race specification: two seeders; the file, seeder_on and seeder_off
\* commands arrive between two calls of granular_perform64 or between two
\* turns of its loops (nothing keeps the control thread from running then)
\* ======================================================================
RaceInit ==
  /\ host = [a |-> Audio(SrcFrames, 1)]
  /\ gx = Linked(Linked(granular_new(2, MaxGrains, 1), host, 0, <<0, 1>>, 2,
                        <<1, 1>>, 0, <<0, 1>>, 1),
                 host, 1, <<0, 1>>, 2, <<1, 1>>, 0, <<0, 1>>, 1)
  /\ pc = "idle"
  /\ cursor = 0
  /\ strm = 0
  /\ n_smp = 1
  /\ rend = [g \in 0..(gx.grains_max - 1) |-> 0]
  /\ blk = [c |-> 0, k |-> 0, n |-> 0,
            race |-> [raced |-> FALSE, done |-> <<>>, stay |-> {}]]
  /\ obs = [ev |-> "new", bang |-> 0]
  /\ ListUnused

\* A command that arrives while the pass is at one of its loops: the pass
\* keeps its place (pc, cursor, strm). One command is followed per pass.
During(name, index, x1) ==
  /\ pc \in {"seeders", "grains"}
  /\ ~blk.race.raced
  /\ gx' = x1
  /\ blk' = [blk EXCEPT !.race.raced = TRUE, !.race.stay = @ \ {index}]
  /\ obs' = [ev |-> name, bang |-> 1, index |-> index, during |-> pc]
  /\ UNCHANGED <<pc, cursor, strm, n_smp, rend, lvars>>

RaceFile ==
  \E index \in 0..(gx.seeders_max - 1) :
     /\ pc = "grains"
     /\ gx.seeders_arr[index].is_on
     /\ During("file", index, granular_file(gx, index).x)
     /\ host' = host_read(gx, host, index, Audio(SrcFrames, 1))

RaceSeederOn ==
  \E index \in 0..(gx.seeders_max - 1) :
     /\ pc = "seeders"
     /\ During("seeder_on", index, granular_seeder_on(gx, index).x)
     /\ UNCHANGED host

RaceSeederOff ==
  \E index \in 0..(gx.seeders_max - 1) :
     /\ pc = "seeders"
     /\ During("seeder_off", index, granular_seeder_off(gx, index).x)
     /\ UNCHANGED host

\* The counters are followed one step below 0 and the countdowns one block
\* below 0, no further.
RaceCapped ==
  /\ gx.grains_cnt >= -1
  /\ gx.seeders_cnt >= -1
  /\ \A i \in 0..(gx.seeders_max - 1) : gx.seeders_arr[i].period_cntd[0] >= -n_smp

RacePerform == Perform /\ RaceCapped'

RaceNext ==
  \/ RacePerform \/ EngSeederOn \/ EngSeederOff
  \/ RaceFile \/ RaceSeederOn \/ RaceSeederOff

\* ======================================================================
\* The cursor specification: one seeder whose grains are longer or shorter
\* than the stretch of source they play (shift in octaves)
\* ======================================================================
CurLens == {1, 2, 4}
CurShifts == {-1, 0, 1}

CurInit ==
  /\ host = [a |-> Audio(SrcFrames, 1)]
  /\ \E length_ms \in CurLens, shift \in CurShifts, poly \in Polys :
       gx = granular_set_seeder(granular_buffer(granular_new(1, MaxGrains, 1), host, 0, "a"),
                                0, 1, <<0, 1>>, length_ms, shift, <<1, 1>>, 0, <<0, 1>>, poly)
  /\ pc = "idle"
  /\ cursor = 0
  /\ strm = 0
  /\ n_smp \in 1..(MaxBlock + 1)
  /\ rend = [g \in 0..(gx.grains_max - 1) |-> 0]
  /\ blk = NoBlock
  /\ obs = [ev |-> "new", bang |-> 0]
  /\ ListUnused

CurNext == Perform \/ EngSeederOn

\* ======================================================================
\* The output specification: one seeder; the blocks are counted and the place
\* of every grain in the output is kept, for the first MaxCount - 1 blocks
\* ======================================================================
PosInit ==
  /\ host = [a |-> Audio(SrcFrames, 1)]
  /\ \E length_ms \in 2..MaxLen, period \in Periods, poly \in Polys :
       gx = Linked(granular_new(1, MaxGrains + 1, 1), host, 0, <<0, 1>>, length_ms,
                   period, 0, <<0, 1>>, poly)
  /\ pc = "idle"
  /\ cursor = 0
  /\ strm = 0
  /\ n_smp \in 1..MaxBlock
  /\ rend = [g \in 0..(gx.grains_max - 1) |-> 0]
  /\ blk = [c |-> 0, k |-> 0, n |-> 0, b |-> 0,
            at |-> [g \in 0..(gx.grains_max - 1) |-> 0]]
  /\ obs = [ev |-> "new", bang |-> 0]
  /\ ListUnused

PosCapped == blk.b < MaxCount

PosPerform == Perform /\ PosCapped'

PosNext == PosPerform \/ EngSeederOn \/ EngSeederOff

\* ======================================================================
\* The accumulator specification: one seeder; set_seeder, poly and period
\* arrive between the blocks, with periods of 0 or more of the length and a
\* random part of 0 or 1
\* ======================================================================
AccLens == {-2, 2}
AccPeriods == {<<0, 1>>, <<1, 1>>, <<3, 2>>}
AccRands == {<<0, 1>>, <<1, 1>>}

AccInit ==
  /\ host = [a |-> Audio(SrcFrames, 1)]
  /\ gx = Linked(granular_new(1, MaxGrains, 1), host, 0, <<0, 1>>, 2, <<1, 1>>, 0, <<0, 1>>, 1)
  /\ pc = "idle"
  /\ cursor = 0
  /\ strm = 0
  /\ n_smp \in 1..MaxBlock
  /\ rend = [g \in 0..(gx.grains_max - 1) |-> 0]
  /\ blk = NoBlock
  /\ obs = [ev |-> "new", bang |-> 0]
  /\ ListUnused

AccSetSeeder ==
  \E length_ms \in AccLens, period \in AccPeriods, period_rand \in AccRands, poly \in Polys :
     /\ Command("set_seeder", <<0, length_ms, period, period_rand, poly>>,
                [x |-> granular_set_seeder(gx, 0, 1, <<0, 1>>, length_ms, 0, period, 0,
                                           period_rand, poly),
                 bang |-> 0, hung |-> FALSE])
     /\ UNCHANGED host

AccPoly ==
  \E poly \in Polys :
     /\ Command("poly", <<0, poly>>,
                [x |-> granular_poly(gx, 0, poly), bang |-> 0, hung |-> FALSE])
     /\ UNCHANGED host

AccPeriod ==
  \E period \in AccPeriods :
     /\ Command("period", <<0, period>>,
                [x |-> granular_period(gx, 0, period), bang |-> 0, hung |-> FALSE])
     /\ UNCHANGED host

AccNext == LenPerform \/ EngSeederOn \/ AccSetSeeder \/ AccPoly \/ AccPeriod

\* ======================================================================
\* The wrap specification: one seeder that plays forward or backward through
\* a buffer~ of 2 frames, with a window of 1 frame or of 4
\* ======================================================================
WrapLens == {1, 4}
WrapPeriods == {<<1, 4>>, <<1, 1>>}

WrapInit ==
  /\ host = [a |-> Audio(2, 1)]
  /\ \E length_ms \in WrapLens, period \in WrapPeriods, speed \in WinSpeeds, poly \in Polys :
       /\ Trunc(length_ms * period[1], period[2]) >= 1
       /\ gx = Linked(granular_new(1, MaxGrains, 1), host, 0, <<0, 1>>, length_ms,
                      period, speed, <<0, 1>>, poly)
  /\ pc = "idle"
  /\ cursor = 0
  /\ strm = 0
  /\ n_smp \in 1..MaxBlock
  /\ rend = [g \in 0..(gx.grains_max - 1) |-> 0]
  /\ blk = NoBlock
  /\ obs = [ev |-> "new", bang |-> 0]
  /\ ListUnused

WrapNext == Perform \/ EngSeederOn \/ EngSeederOff

\* ======================================================================
\* The source specification: one seeder whose buffer~ is linked again between
\* the blocks, to the buffer~ "a" or to a name no buffer~ has
\* ======================================================================
SrcInit ==
  /\ host = [a |-> Audio(SrcFrames, 1)]
  /\ \E poly \in Polys :
       gx = Linked(granular_new(1, MaxGrains, 1), host, 0, <<0, 1>>, 2, <<1, 1>>, 0,
                   <<0, 1>>, poly)
  /\ pc = "idle"
  /\ cursor = 0
  /\ strm = 0
  /\ n_smp = 1
  /\ rend = [g \in 0..(gx.grains_max - 1) |-> 0]
  /\ blk = NoBlock
  /\ obs = [ev |-> "new", bang |-> 0]
  /\ ListUnused

SrcBuffer ==
  \E sym \in {"a", "zz"} :
     /\ Command("buffer", <<0, sym>>,
                [x |-> granular_buffer(gx, host, 0, sym), bang |-> 0, hung |-> FALSE])
     /\ UNCHANGED host

SrcNext == Perform \/ EngSeederOn \/ EngSeederOff \/ SrcBuffer

\* ======================================================================
\* The list specification: any sequence of list operations on a fresh list
\* ======================================================================

ListInit ==
  /\ \E n \in 1..MaxListLen : lst = list_new(n)
  /\ lpre = lst
  /\ lop = <<"list_new", 0, LIST_END, "list_new", LIST_END>>
  /\ lret = 0
  /\ nfirst = 0
  /\ GranularUnused

\* The index an operation moved from the used list to the empty list, if any.
Released(l, m) ==
  LET gone == Range(UsedSeq(l)) \ Range(UsedSeq(m)) IN
  IF gone = {} THEN LIST_END ELSE CHOOSE j \in gone : TRUE

ListDo(name, arg, res) ==
  /\ lst' = res.l
  /\ lpre' = lst
  /\ lop' = IF name = "list_insert_first"
            THEN <<name, arg, Released(lst, res.l), lop[1], lop[3]>>
            ELSE <<name, arg, Released(lst, res.l), "list_new", LIST_END>>
  /\ lret' = res.ret
  /\ nfirst' = IF name = "list_insert_first" /\ nfirst >= 0 /\ nfirst <= lst.len
               THEN nfirst + 1 ELSE -1
  /\ UNCHANGED gvars

ListInsertFirst == ListDo("list_insert_first", 0, list_insert_first(lst))
ListInsertLast == ListDo("list_insert_last", 0, list_insert_last(lst))
ListInsertNth ==
  \E n \in -1..(lst.len + 1) : ListDo("list_insert_nth", n, list_insert_nth(lst, n))
ListInsertNode ==
  \E node \in UsedCells(lst) : ListDo("list_insert_node", node, list_insert_node(lst, node))
ListInsertIndex ==
  \E index \in -2..(lst.len + 1) :
     ListDo("list_insert_index", index, list_insert_index(lst, index))
ListRemoveFirst == ListDo("list_remove_first", 0, list_remove_first(lst))
ListRemoveLast == ListDo("list_remove_last", 0, list_remove_last(lst))
ListRemoveNth ==
  \E n \in -1..(lst.len + 1) : ListDo("list_remove_nth", n, list_remove_nth(lst, n))
\* The cursor addresses a used node: *node != LIST_END.
ListRemoveNode ==
  \E node \in UsedCells(lst) :
     /\ lst.array[node] # LIST_END
     /\ ListDo("list_remove_node", node, list_remove_node(lst, node))
ListRemoveIndex ==
  \E index \in -2..(lst.len + 1) :
     ListDo("list_remove_index", index, list_remove_index(lst, index))

\* The loop of the grain pass and of granular_all_off over a list:
\*   node = first_used; while (*node != LIST_END) {
\*     if (keep) node = array + *node; else list_remove_node(list, node); }
\* gone is the set of indices the caller does not keep; seen lists the indices
\* in the order of the turns; the walk is followed for at most `turns` turns
\* (over tells that it ended by itself).
RECURSIVE sweep_loop(_, _, _, _, _)
sweep_loop(l, node, gone, seen, turns) ==
  IF l.array[node] = LIST_END THEN [l |-> l, seen |-> seen, over |-> TRUE]
  ELSE IF turns = 0 THEN [l |-> l, seen |-> seen, over |-> FALSE]
  ELSE IF l.array[node] \in gone
  THEN sweep_loop(list_remove_node(l, node).l, node, gone,
                  Append(seen, l.array[node]), turns - 1)
  ELSE sweep_loop(l, l.array[node], gone, Append(seen, l.array[node]), turns - 1)

sweep(l, gone) == sweep_loop(l, first_used(l), gone, <<>>, 2 * l.len + 2)

ListSweep ==
  \E gone \in SUBSET Range(UsedSeq(lst)) :
     /\ UsedSeq(lst) # <<>>
     /\ ListDo("sweep", gone, [l |-> sweep(lst, gone).l, ret |-> Len(sweep(lst, gone).seen)])

ListNext ==
  \/ ListInsertFirst \/ ListInsertLast \/ ListInsertNth \/ ListInsertNode
  \/ ListInsertIndex \/ ListRemoveFirst \/ ListRemoveLast \/ ListRemoveNth
  \/ ListRemoveNode \/ ListRemoveIndex \/ ListSweep

vars == <<lvars, gvars>>

SpecList == ListInit /\ [][ListNext]_vars

SpecCtl == CtlInit /\ [][CtlNext]_vars
SpecOne == OneInit /\ [][CtlNext]_vars
Spec == Init /\ [][Next]_vars
SpecFlush == FlushInit /\ [][FlushNext]_vars
SpecWin == WinInit /\ [][WinNext]_vars
SpecFold == FoldInit /\ [][FoldNext]_vars
SpecArg == ArgInit /\ [][ArgNext]_vars
SpecLen == LenInit /\ [][LenNext]_vars
SpecPoly == PolyInit /\ [][PolyNext]_vars
SpecScene == SceneInit /\ [][SceneNext]_vars
SpecReg == RegInit /\ [][RegNext]_vars
SpecRace == RaceInit /\ [][RaceNext]_vars
SpecCur == CurInit /\ [][CurNext]_vars
SpecPos == PosInit /\ [][PosNext]_vars
SpecAcc == AccInit /\ [][AccNext]_vars
SpecWrap == WrapInit /\ [][WrapNext]_vars
SpecSrc == SrcInit /\ [][SrcNext]_vars

\* The host keeps calling and the code keeps running; rand() does not return
\* values below the middle of its range for ever.
SchedSpawnHigh ==
  /\ pc = "seeders"
  /\ CursorSeeder # LIST_END
  /\ gx.seeders_arr[CursorSeeder].is_on
  /\ strm = 0 \/ strm < gx.seeders_arr[CursorSeeder].poly_cnt
  /\ gx.seeders_arr[CursorSeeder].period_cntd[strm] < n_smp
  /\ Spawned(IF strm = 0 THEN sched_main_turn(gx, CursorSeeder, 1)
                         ELSE sched_poly_turn(gx, CursorSeeder, strm, 1), 1)
FairSpec == Spec /\ WF_vars(Perform) /\ SF_vars(SchedSpawnHigh)

\* ======================================================================
\* Claims
\* ======================================================================

\* A list is well formed: both chains end in LIST_END without a cycle, every
\* index 0..len-1 is in exactly one of them, and the lengths add up to len.
ListWellFormed(l) ==
  /\ -9 \notin Range(UsedSeq(l))
  /\ -9 \notin Range(EmptySeq(l))
  /\ Range(UsedSeq(l)) \cap Range(EmptySeq(l)) = {}
  /\ Range(UsedSeq(l)) \cup Range(EmptySeq(l)) = 0..(l.len - 1)
  /\ Len(UsedSeq(l)) + Len(EmptySeq(l)) = l.len

\* C1: after any sequence of list operations every index 0..N-1 is reachable
\* from exactly one of the two heads, both chains are acyclic and end in
\* LIST_END, and used length + empty length = N.
C1_Partition == ListWellFormed(lst)

\* C1 witness: a list with both chains non-empty, reached by a remove.
C1_Witness ==
  /\ lop[1] = "list_remove_last"
  /\ Len(UsedSeq(lst)) >= 1
  /\ Len(EmptySeq(lst)) >= 2

\* C2: on a fresh list of capacity N the first N list_insert_first calls
\* succeed, and the (N+1)-th returns LIST_ERR_FULL and changes no cell (so
\* neither the used nor the empty list).
C2_FullIsRejected ==
  /\ (nfirst \in 1..lst.len) => lret >= 0
  /\ (nfirst = lst.len + 1) => (lret = LIST_ERR_FULL /\ lst = lpre)

\* C2 witness: the (N+1)-th list_insert_first call on a fresh list happened.
C2_Witness == nfirst = lst.len + 1 /\ lst.len = MaxListLen

\* The indices of the seeder active list.
ActiveSeeders == Range(UsedSeq(gx.seeders_list))
Seeders == 0..(gx.seeders_max - 1)

\* C6: between commands, a seeder index is in the used list of the seeder
\* list exactly when seeders_arr[i].is_on is true, and seeders_cnt is the
\* length of that used list.
C6_ActiveSetIsTheEnabledSet ==
  pc = "idle" =>
    /\ \A i \in Seeders : (i \in ActiveSeeders) <=> gx.seeders_arr[i].is_on
    /\ gx.seeders_cnt = Len(UsedSeq(gx.seeders_list))

\* A seeder's source is fully linked and loaded: a buffer object is attached
\* and its frame count, channel count and sample rate are non-zero.
SourceReady(sd) ==
  /\ sd.buff_obj # NULL
  /\ sd.buff_n_frm # 0
  /\ sd.buff_n_chn # 0
  /\ sd.buff_msr # 0

\* C7: a seeder goes from disabled to enabled only if at that moment its
\* source is fully linked and loaded.
C7_EnabledOnlyWhenSourceReady ==
  [][\A i \in Seeders :
       (~gx.seeders_arr[i].is_on /\ gx'.seeders_arr[i].is_on)
          => SourceReady(gx.seeders_arr[i])]_vars

\* ----------------------------------------------------------------------
\* The engine
\* ----------------------------------------------------------------------
Min(a, b) == IF a < b THEN a ELSE b
ActiveGrains(x) == Range(UsedSeq(x.grains_list))

\* C3: a grain of output length L >= 2 that starts at an offset in
\* [0, n_smp) is rendered in every pass while it is in the grain list, each
\* pass writes what is left of the block or of the grain, and the grain leaves
\* the list in the very pass that writes its L-th sample; between passes no
\* listed grain has all its samples written.
C3_RetiredWithItsLastSample ==
  [][ /\ (pc = "grains" /\ obs'.ev = "grain") =>
           LET g == obs'.slot
               L == gx.grains_arr[g].out_len
               off == gx.grains_arr[g].out_begin
           IN (L >= 2 /\ off \in 0..(n_smp - 1)) =>
                 /\ g \in ActiveGrains(gx)
                 /\ pc' = "grains"
                 /\ rend'[g] = Min(rend[g] + n_smp - off, L)
                 /\ rend'[g] > rend[g]
                 /\ (rend'[g] = L) <=> (g \notin ActiveGrains(gx'))
                 /\ (rend'[g] = L) <=> (gx'.grains_cnt = gx.grains_cnt - 1)
      /\ (pc = "grains" /\ pc' = "idle") =>
           \A g \in ActiveGrains(gx') :
              gx'.grains_arr[g].out_len >= 2 =>
                 /\ rend'[g] < gx'.grains_arr[g].out_len
                 /\ gx'.grains_arr[g].out_begin = 0
    ]_vars

\* A grain of three samples or more is retired in a pass that wrote only a
\* part of it: it was rendered over several blocks.
C3_Witness ==
  /\ obs.ev = "grain"
  /\ obs.retired
  /\ gx.grains_arr[obs.slot].out_len >= 3
  /\ rend[obs.slot] = gx.grains_arr[obs.slot].out_len
  /\ obs.k < gx.grains_arr[obs.slot].out_len
  /\ obs.slot \notin ActiveGrains(gx)

\* C5: rendering a grain of output length L >= 1 and source length >= 1
\* ends: the loops that carry the cursors' remainders over are left.
C5_RenderingEnds ==
  (/\ obs.ev = "grain"
   /\ gx.grains_arr[obs.slot].out_len >= 1
   /\ gx.grains_arr[obs.slot].src_len >= 1) => pc # "cursor_loop"

\* C10: a turn of a stream's loop that finds the pool full leaves the grain
\* list, the grain records and grains_cnt as they were, and moves the
\* stream's countdown (and, for the main stream, the source position) by the
\* period drawn, as a turn that spawns a grain does.
C10_FullPoolDropsTheGrainOnly ==
  [][ (pc = "seeders" /\ obs'.ev = "spawn" /\ gx.grains_cnt = gx.grains_max) =>
        LET i == CursorSeeder
            sd == gx.seeders_arr[i]
            sd1 == gx'.seeders_arr[i]
        IN /\ gx'.grains_list = gx.grains_list
           /\ gx'.grains_arr = gx.grains_arr
           /\ gx'.grains_cnt = gx.grains_cnt
           /\ \E U \in Draws :
                LET period == Trunc(sd.period_len * (sd.period_rand[2] + sd.period_rand[1] * U),
                                    sd.period_rand[2])
                    b0 == sd.src_begin + Trunc(period * sd.speed * sd.buff_msr, gx.msamplerate)
                    b1 == IF b0 < 0 THEN sd.buff_n_frm - sd.src_len ELSE b0
                    b2 == IF b1 + sd.src_len > sd.buff_n_frm THEN 0 ELSE b1
                IN /\ sd1.period_cntd = [sd.period_cntd EXCEPT ![strm] = @ + period]
                   /\ sd1.src_begin = IF strm = 0 THEN b2 ELSE sd.src_begin
    ]_vars

\* A grain was dropped although its period moved the stream's countdown.
C10_Witness ==
  /\ obs.ev = "spawn"
  /\ obs.slot = -1
  /\ gx.grains_cnt = gx.grains_max
  /\ Len(UsedSeq(gx.grains_list)) = gx.grains_max
  /\ pc = "seeders"
  /\ gx.seeders_arr[CursorSeeder].period_cntd[strm] >= n_smp

\* C4: the scheduling of a block ends: with a fair host and fair draws the
\* seeder loop of granular_perform64 is always left.
C4_SchedulingEnds == (pc = "seeders") ~> (pc # "seeders")

\* C9: right after the file command for seeder i no grain of seeder i is in
\* the grain list, whether seeder i was on or off when the command arrived.
C9_FileFlushesTheSeedersGrains ==
  obs.ev = "file" =>
     \A g \in ActiveGrains(gx) : gx.grains_arr[g].index # obs.index

\* C8: the source window of every seeder with a buffer that is ready lies
\* inside the buffer.
C8_WindowInsideBuffer ==
  \A i \in Seeders :
     gx.seeders_arr[i].buff_state = BUFF_READY =>
        /\ 0 <= gx.seeders_arr[i].src_begin
        /\ gx.seeders_arr[i].src_begin + gx.seeders_arr[i].src_len
             <= gx.seeders_arr[i].buff_n_frm

\* C11: seeder_off(i) on a seeder that is on takes i out of the seeder list
\* and leaves the grain list, the grain records and grains_cnt as they were;
\* a seeder is switched on by seeder_on only, a grain is spawned only for a
\* seeder that is on (and in the list), and the grains of a seeder that is
\* off are rendered like any other until their last sample.
C11_SeederOffKeepsItsGrains ==
  [][ /\ (pc = "idle" /\ obs'.ev = "seeder_off") =>
           \A i \in Seeders :
              (obs'.args[1] = i /\ gx.seeders_arr[i].is_on) =>
                 /\ ~gx'.seeders_arr[i].is_on
                 /\ i \notin Range(UsedSeq(gx'.seeders_list))
                 /\ gx'.grains_list = gx.grains_list
                 /\ gx'.grains_arr = gx.grains_arr
                 /\ gx'.grains_cnt = gx.grains_cnt
      /\ \A i \in Seeders :
           (~gx.seeders_arr[i].is_on /\ gx'.seeders_arr[i].is_on) =>
              (obs'.ev = "seeder_on" /\ obs'.args[1] = i)
      /\ (pc = "seeders" /\ obs'.ev = "spawn" /\ obs'.slot >= 0) =>
           /\ gx.seeders_arr[gx'.grains_arr[obs'.slot].index].is_on
           /\ gx'.grains_arr[obs'.slot].index \in ActiveSeeders
      /\ (pc = "grains" /\ obs'.ev = "grain") =>
           LET g == obs'.slot
               L == gx.grains_arr[g].out_len
           IN (L >= 2 /\ ~gx.seeders_arr[gx.grains_arr[g].index].is_on) =>
                 /\ rend'[g] = Min(rend[g] + n_smp - gx.grains_arr[g].out_begin, L)
                 /\ (rend'[g] = L) <=> (g \notin ActiveGrains(gx'))
    ]_vars

\* The last sample of a grain is rendered while its seeder is off and the
\* other seeder is on.
C11_Witness ==
  /\ obs.ev = "grain"
  /\ obs.retired
  /\ rend[obs.slot] = gx.grains_arr[obs.slot].out_len
  /\ ~gx.seeders_arr[gx.grains_arr[obs.slot].index].is_on
  /\ gx.grains_arr[obs.slot].index \notin ActiveSeeders
  /\ ActiveSeeders # {}

\* The seeder being scheduled is on, has no randomization and a period of one
\* sample or more, and its main stream began the block at c >= 0.
Steady(sd, b) ==
  /\ sd.is_on
  /\ sd.period_rand[1] = 0
  /\ sd.period_len >= 1
  /\ b.c >= 0

\* k is the least number of periods P that takes c to S or beyond.
LeastTurns(k, c, P, S) ==
  /\ k >= 0
  /\ c + k * P >= S
  /\ k = 0 \/ c + (k - 1) * P < S

\* C12 (as stated): with period_rand = 0 and period_len = P >= 1, the main
\* stream that begins a block at c >= 0 has spawned, when its loop is left,
\* as many grains as the least k with c + k * P >= n_smp.
C12_GrainsSpawnedPerBlock ==
  (/\ pc = "seeders"
   /\ CursorSeeder # LIST_END
   /\ strm >= 1
   /\ Steady(gx.seeders_arr[CursorSeeder], blk)) =>
     LeastTurns(blk.n, blk.c, gx.seeders_arr[CursorSeeder].period_len, n_smp)

\* C12 (amended): under the same conditions the loop of the main stream takes
\* the least k turns with c + k * P >= n_smp; turn j (from 0) spawns a grain
\* at output offset c + j * P, or drops it when the pool is full; the
\* countdown is c + k * P when the loop is left and c + k * P - n_smp after
\* the block.
C12_TurnsPerBlock ==
  /\ (/\ pc = "seeders"
      /\ CursorSeeder # LIST_END
      /\ Steady(gx.seeders_arr[CursorSeeder], blk)) =>
        LET sd == gx.seeders_arr[CursorSeeder]
            P == sd.period_len
        IN /\ blk.k <= n_smp
           /\ blk.n <= blk.k
           /\ sd.period_cntd[0] = blk.c + blk.k * P
           /\ blk.k = 0 \/ blk.c + (blk.k - 1) * P < n_smp
           /\ strm >= 1 => LeastTurns(blk.k, blk.c, P, n_smp)
           /\ (obs.ev = "spawn" /\ strm = 0) =>
                 IF obs.slot >= 0
                 THEN gx.grains_arr[obs.slot].out_begin = blk.c + (blk.k - 1) * P
                 ELSE gx.grains_cnt = gx.grains_max
  /\ (/\ obs.ev = "seeder"
      /\ Steady(gx.seeders_arr[obs.index], obs.blk)) =>
        LET sd == gx.seeders_arr[obs.index]
            P == sd.period_len
        IN /\ LeastTurns(obs.blk.k, obs.blk.c, P, n_smp)
           /\ sd.period_cntd[0] = obs.blk.c + obs.blk.k * P - n_smp

\* A block in which the main stream took two turns or more and a grain was
\* dropped.
C12_Witness ==
  /\ obs.ev = "seeder"
  /\ Steady(gx.seeders_arr[obs.index], obs.blk)
  /\ obs.blk.k >= 2
  /\ obs.blk.n < obs.blk.k
  /\ gx.seeders_arr[obs.index].period_cntd[0]
       = obs.blk.c + obs.blk.k * gx.seeders_arr[obs.index].period_len - n_smp

\* C13: the finisher leaves a sample v with -1 <= v <= 1 as it is, turns
\* v > 1 into 2 - v and v < -1 into -2 - v: one reflection at most.
C13_FoldReflectsOnce ==
  (obs.ev = "perform_end" /\ pc = "idle" /\ "acc" \in DOMAIN obs) =>
     \A i \in DOMAIN obs.acc :
        LET v == obs.acc[i] IN
        obs.out[i] = IF v > Unit THEN 2 * Unit - v
                     ELSE IF v < -Unit THEN -2 * Unit - v
                     ELSE v

\* C14: after set_seeder or begin with a begin fraction that puts the end of
\* the window past the end of the buffer, src_begin is buff_n_frm - src_len
\* and is not negative.
C14_BeginClampedToTheEnd ==
  (pc = "idle" /\ obs.ev \in {"set", "begin"}) =>
     LET sd == gx.seeders_arr[obs.args[1]]
         b == Trunc(obs.args[2][1] * sd.buff_n_frm, obs.args[2][2])
     IN (b >= 0 /\ b + sd.src_len > sd.buff_n_frm) =>
           /\ sd.src_begin = sd.buff_n_frm - sd.src_len
           /\ sd.src_begin >= 0

\* C15: the first N calls on a fresh list of capacity N, all of them
\* list_insert_first, return 0, 1, ..., N - 1 in that order, and after the
\* k-th of them the used list reads k - 1, k - 2, ..., 0 from first_used.
C15_InsertFirstOrder ==
  (nfirst >= 1 /\ nfirst <= lst.len) =>
     /\ lop[1] = "list_insert_first"
     /\ lret = nfirst - 1
     /\ UsedSeq(lst) = [i \in 1..nfirst |-> nfirst - i]
     /\ EmptySeq(lst) = [i \in 1..(lst.len - nfirst) |-> nfirst + i - 1]

\* Capacity 4: the fourth call returned 3 and the used list reads 3, 2, 1, 0.
C15_Witness ==
  /\ lst.len = 4
  /\ nfirst = 4
  /\ lret = 3
  /\ UsedSeq(lst) = <<3, 2, 1, 0>>

\* C16: when a used index j has just been released by list_remove_node,
\* list_remove_first, list_remove_nth or list_remove_index, the list_insert_first
\* that follows returns j.
ReleaseOps == {"list_remove_node", "list_remove_first", "list_remove_nth", "list_remove_index"}

C16_InsertFirstReusesTheReleased ==
  (lop[1] = "list_insert_first" /\ lop[4] \in ReleaseOps /\ lop[5] # LIST_END)
     => lret = lop[5]

\* list_remove_index released an index of a list that still had another empty
\* node, and list_insert_first handed the released index out again.
C16_Witness ==
  /\ lop[1] = "list_insert_first"
  /\ lop[4] = "list_remove_index"
  /\ lop[5] # LIST_END
  /\ lret = lop[5]
  /\ Len(EmptySeq(lst)) >= 1
  /\ Len(UsedSeq(lst)) >= 2

\* C17: list_insert_index(i) unlinks an index i of the empty list, makes it the
\* head of the used list in front of the other used nodes in their order, and
\* returns i; for an index of the used list and for a number that is no index
\* of the list it returns LIST_NOT_FOUND and leaves both lists as they were.
Without(s, v) == SelectSeq(s, LAMBDA e : e # v)

C17_InsertIndex ==
  lop[1] = "list_insert_index" =>
     IF lop[2] \in Range(EmptySeq(lpre))
     THEN /\ lret = lop[2]
          /\ UsedSeq(lst) = <<lop[2]>> \o UsedSeq(lpre)
          /\ EmptySeq(lst) = Without(EmptySeq(lpre), lop[2])
     ELSE /\ lret = LIST_NOT_FOUND
          /\ lst = lpre

\* An index from the middle of the empty list was inserted in front of two used
\* nodes.
C17_Witness ==
  /\ lop[1] = "list_insert_index"
  /\ Len(EmptySeq(lpre)) >= 2
  /\ lop[2] \in Range(EmptySeq(lpre))
  /\ lop[2] # EmptySeq(lpre)[1]
  /\ Len(UsedSeq(lpre)) >= 2
  /\ lret = lop[2]

\* An index of the used list was refused.
C17_WitnessRefused ==
  /\ lop[1] = "list_insert_index"
  /\ lop[2] \in Range(UsedSeq(lpre))
  /\ lret = LIST_NOT_FOUND

\* C18: a grain whose source length equals its output length L, L >= 2, has
\* after every rendered sample a source cursor src_I equal to the number of
\* samples rendered so far (one more per sample) and a remainder src_R of 0,
\* in the block it was spawned in and in every later block.
C18_UnitSpeedCursor ==
  \A g \in 0..(gx.grains_max - 1) :
     LET grain == gx.grains_arr[g] IN
     (grain.src_len = grain.out_len /\ grain.out_len >= 2)
        => /\ grain.src_R = 0
           /\ grain.src_I = rend[g]
           /\ grain.out_cntd = grain.out_len - rend[g]

\* A grain of three samples was rendered in a second block, after samples it
\* got in an earlier block.
C18_Witness ==
  /\ obs.ev = "grain"
  /\ gx.grains_arr[obs.slot].src_len = 3
  /\ gx.grains_arr[obs.slot].out_len = 3
  /\ obs.k >= 1
  /\ rend[obs.slot] > obs.k
  /\ gx.grains_arr[obs.slot].src_I = rend[obs.slot]
  /\ gx.grains_arr[obs.slot].src_R = 0

\* C19: a command that carries a seeder index outside [0, seeders_max-1]
\* (set_seeder, seeder_on, seeder_off, focus, ampl, begin, length, shift,
\* period, speed, poly, period_rand, file, envelope) is rejected before it
\* changes anything: the object is as it was, and no memory outside the seeder
\* array was stored to.
C19_BadIndexRejected ==
  [][(obs'.ev \in ArgCommands /\ ~InArray(gx, obs'.args[1]))
       => (gx' = gx /\ pc' = "idle" /\ "wild" \notin DOMAIN obs')]_vars

\* C20: every seeder_on and every seeder_off sends exactly one bang to the
\* completion outlet and returns, whichever path it takes: success, an index
\* outside the array, a seeder already in the state asked for, a source with
\* no file loaded or no buffer linked.
C20_OneBangOnEveryPath ==
  obs.ev \in {"seeder_on", "seeder_off"} => (obs.bang = 1 /\ pc = "idle")

\* seeder_on was refused for a seeder whose buffer~ has no file loaded.
C20_Witness ==
  /\ obs.ev = "seeder_on"
  /\ InArray(gx, obs.args[1])
  /\ ~gx.seeders_arr[obs.args[1]].is_on
  /\ gx.seeders_arr[obs.args[1]].buff_state = BUFF_NO_FILE
  /\ obs.bang = 1

\* The other paths: no buffer linked, an index outside the array, success, and
\* seeder_off for a seeder that is on and for one that is off.
C20_NoLink ==
  /\ obs.ev = "seeder_on"
  /\ InArray(gx, obs.args[1])
  /\ gx.seeders_arr[obs.args[1]].buff_state = BUFF_NO_LINK
  /\ obs.bang = 1
C20_BadIndex == obs.ev \in {"seeder_on", "seeder_off"} /\ ~InArray(gx, obs.args[1]) /\ obs.bang = 1
C20_TurnedOn ==
  /\ obs.ev = "seeder_on"
  /\ InArray(gx, obs.args[1])
  /\ gx.seeders_arr[obs.args[1]].is_on
  /\ obs.bang = 1
C20_TurnedOff ==
  /\ obs.ev = "seeder_off"
  /\ InArray(gx, obs.args[1])
  /\ gx.seeders_arr[obs.args[1]].buff_state = BUFF_READY
  /\ obs.bang = 1

\* C21: for every grain the render pass visits, the buffer of its seeder is
\* locked once before the grain's samples and unlocked once after them, before
\* the next grain is visited, also when the grain is retired or gets no sample;
\* no lock is held once the pass is over.
C21_LockedAndUnlockedOnce ==
  obs.ev = "grain" => (obs.locks = 1 /\ obs.unlocks = 1)

\* A grain that was rendered and retired in the same turn, with the lock
\* released.
C21_Paired ==
  obs.ev = "grain" /\ obs.retired /\ obs.k >= 1 /\ obs.locks = 1 /\ obs.unlocks = 1

\* C22: whatever length, shift and set_seeder made of the seeder, the countdown
\* out_cntd of every grain in the grain list is never negative and is the
\* grain's output length less one per sample rendered; when a render pass is
\* over every grain still in the list has 0 < out_cntd <= out_len.
C22_CountdownInRange ==
  \A g \in ActiveGrains(gx) :
     LET grain == gx.grains_arr[g] IN
     /\ grain.out_cntd >= 0
     /\ grain.out_cntd = grain.out_len - rend[g]
     /\ obs.ev = "perform_end" => (0 < grain.out_cntd /\ grain.out_cntd <= grain.out_len)

\* The countdown of a grain that runs over several blocks, for a seeder whose
\* length is positive.
C22_Counted ==
  /\ obs.ev = "perform_end"
  /\ \E g \in ActiveGrains(gx) :
        /\ rend[g] >= 1
        /\ gx.grains_arr[g].out_cntd = gx.grains_arr[g].out_len - rend[g]
        /\ gx.grains_arr[g].out_cntd > 0

\* C23: after any set_seeder and poly commands, whatever number of streams
\* they ask for (0, negative, above poly_max), every seeder's poly_cnt is in
\* [1, poly_max], and the stream the scheduler works on is one of the
\* POLY_MAX accumulators period_cntd[0 .. POLY_MAX-1].
C23_PolyCountInRange ==
  /\ \A i \in Seeders :
        gx.seeders_arr[i].poly_cnt >= 1 /\ gx.seeders_arr[i].poly_cnt <= gx.poly_max
  /\ (pc = "seeders" /\ CursorSeeder # LIST_END /\ gx.seeders_arr[CursorSeeder].is_on
        /\ strm < gx.seeders_arr[CursorSeeder].poly_cnt)
       => strm \in 0..(POLY_MAX - 1)

\* The seeder was given POLY_MAX streams, the most a command can set, and the
\* scheduler is at the last of them.
C23_Witness ==
  /\ gx.seeders_arr[0].poly_cnt = POLY_MAX
  /\ pc = "seeders"
  /\ strm = POLY_MAX - 1

\* A command asking for more than poly_max streams has just been refused.
C23_Refused ==
  /\ obs.ev \in {"set_seeder", "poly"}
  /\ obs.args[2] = POLY_MAX + 1
  /\ gx.seeders_arr[0].poly_cnt \in 1..gx.poly_max

\* C24: one enabled seeder with one stream, period 0.37, output length 200
\* (period_len 74), no random part, blocks of 64 samples, accumulator 0 at
\* first. In each of the first four blocks exactly one grain is spawned, at the
\* offsets 0, 10, 20 and 30; the accumulator after the blocks is 10, 20, 30 and
\* 40; after the first block one grain is in the grain list.
C24_FourBlocks ==
  gx.seeders_arr[0].poly_cnt = 1 =>
  /\ gx.seeders_arr[0].period_len = 74
  /\ (obs.ev = "spawn" /\ blk.b \in 1..4)
       => /\ obs.slot >= 0
          /\ gx.grains_arr[obs.slot].out_begin = 10 * (blk.b - 1)
  /\ (obs.ev = "seeder" /\ obs.blk.b \in 1..4)
       => /\ obs.blk.k = 1
          /\ obs.blk.n = 1
          /\ obs.blk.c = 10 * (obs.blk.b - 1)
          /\ gx.seeders_arr[0].period_cntd[0] = 10 * obs.blk.b
  /\ (obs.ev = "perform_end" /\ blk.b = 1)
       => /\ gx.grains_cnt = 1
          /\ Len(UsedSeq(gx.grains_list)) = 1

\* The seeder's turn in the fourth block is over: one grain, accumulator 40.
C24_Witness ==
  /\ gx.seeders_arr[0].poly_cnt = 1
  /\ obs.ev = "seeder"
  /\ obs.blk.b = 4
  /\ obs.blk.n = 1
  /\ obs.blk.c = 30
  /\ gx.seeders_arr[0].period_cntd[0] = 40
  /\ gx.grains_cnt = 4

\* C25: while a grain of output length L >= 2 is rendered, every element of
\* the envelope table that is read, env_values[env_I] and its neighbour
\* env_values[env_I + 1], has an index in [0, env_n_frm - 1], up to the grain's
\* last sample.
C25_EnvelopeReadsInTable ==
  (obs.ev = "grain" /\ obs.k >= 1 /\ gx.grains_arr[obs.slot].out_len >= 2)
     => (obs.env_I >= 0 /\ obs.env_I + 1 <= gx.env_n_frm - 1)

\* Short of the last sample the reads are inside the table.
C25_Inside ==
  /\ obs.ev = "grain"
  /\ obs.k >= 1
  /\ gx.grains_arr[obs.slot].out_len >= 2
  /\ gx.grains_arr[obs.slot].out_cntd >= 1
  /\ obs.env_I + 1 <= gx.env_n_frm - 1

\* C26: a grain of output length L >= 2 whose source window lies inside the
\* buffer (0 <= src_begin, src_begin + src_len <= buff_n_frm) reads only frames
\* of the buffer: the frame src_begin + src_I and its neighbour
\* src_begin + src_I + 1 are both in [0, buff_n_frm - 1], also when the window
\* ends with the buffer.
C26_SourceReadsInBuffer ==
  LET grain == gx.grains_arr[obs.slot]
      buff_n_frm == gx.seeders_arr[grain.index].buff_n_frm
  IN (obs.ev = "grain" /\ obs.k >= 1 /\ grain.out_len >= 2
        /\ grain.src_begin >= 0 /\ grain.src_begin + grain.src_len <= buff_n_frm)
       => (obs.src_frame >= 0 /\ obs.src_frame + 1 <= buff_n_frm - 1)

\* A grain whose window ends before the end of the buffer was rendered to its
\* last sample with all its reads inside the buffer.
C26_Inside ==
  LET grain == gx.grains_arr[obs.slot]
      buff_n_frm == gx.seeders_arr[grain.index].buff_n_frm
  IN /\ obs.ev = "grain"
     /\ obs.retired
     /\ grain.out_len >= 2
     /\ grain.src_begin >= 0
     /\ grain.src_begin + grain.src_len < buff_n_frm
     /\ obs.src_frame + 1 <= buff_n_frm - 1

\* C27: every all_on ends and then sends the bang, whatever the seeder lists
\* and the buffer states are, also with seeders that are on already and with
\* a seeder that is not ready in front of a ready one in the empty list.
C27_AllOnEnds ==
  /\ pc # "all_on"
  /\ obs.ev = "all_on" => obs.bang = 1

\* An all_on that ended with its bang and switched a seeder on.
C27_Ended ==
  /\ obs.ev = "all_on"
  /\ pc = "idle"
  /\ obs.bang = 1
  /\ obs.args[1] # ActiveSeeders

\* C28: after all_on the active list holds the seeders that were in it before
\* the call and every seeder that was not and whose buffer state is BUFF_READY,
\* and no seeder that is not ready, in whatever order the empty list held them.
ReadySeeders == {i \in Seeders : gx.seeders_arr[i].buff_state = BUFF_READY}

C28_AllOnEnablesTheReady ==
  (obs.ev = "all_on" /\ pc = "idle")
     => ActiveSeeders = obs.args[1] \cup ReadySeeders

\* all_on switched on the two ready seeders that were off and left the third
\* seeder, which is not ready and last in the empty list, off.
C28_ReadyFirst ==
  /\ obs.ev = "all_on"
  /\ pc = "idle"
  /\ obs.args[1] = {}
  /\ Cardinality(ReadySeeders) = 2
  /\ ActiveSeeders = ReadySeeders

\* C29: when a file command for a seeder that is on arrives between two turns
\* of the grain loop of a render pass, then after every turn of the rest of
\* the pass and at its end: no grain was retired with a countdown other than
\* 0, no LIST_END was followed as an index, and the grain list is a partition
\* of 0..N-1 into used and empty nodes with grains_cnt the length of the used
\* list.
RacedPass == "race" \in DOMAIN blk /\ blk.race.raced

C29_RenderSurvivesFile ==
  (RacedPass /\ obs.ev \in {"grain", "perform_end"}) =>
    /\ (obs.ev = "grain" /\ obs.retired) => gx.grains_arr[obs.slot].out_cntd = 0
    /\ obs.ev = "grain" => obs.slot # LIST_END
    /\ ListWellFormed(gx.grains_list)
    /\ gx.grains_cnt = Len(UsedSeq(gx.grains_list))

\* A file command arrived during the grain loop and unlinked a grain; the
\* pass went on to its end with the list and the count in order.
C29_Raced ==
  /\ RacedPass
  /\ obs.ev = "perform_end"
  /\ ListWellFormed(gx.grains_list)
  /\ gx.grains_cnt = Len(UsedSeq(gx.grains_list))

\* C30: when a seeder_off or seeder_on command arrives between two turns of
\* the seeder loop of a scheduling pass, the loop's cursor still stands on a
\* cell of the list, the seeder under it is LIST_END or a seeder of the active
\* list (never a node of the empty list), and when the loop ends every seeder
\* that was active from the start of the pass to its end has been scheduled
\* exactly once.
TimesIn(seq, v) == Cardinality({k \in DOMAIN seq : seq[k] = v})

C30_SchedulingSurvivesOnOff ==
  RacedPass =>
    /\ pc = "seeders" =>
         /\ cursor \in DOMAIN gx.seeders_list.array
         /\ CursorSeeder # LIST_END => CursorSeeder \in Range(UsedSeq(gx.seeders_list))
    /\ obs.ev = "clear" =>
         \A i \in blk.race.stay : TimesIn(blk.race.done, i) = 1

\* A seeder_on or seeder_off command arrived during the seeder loop, and the
\* loop ended with a seeder that stayed active scheduled once.
C30_Raced ==
  /\ RacedPass
  /\ obs.ev = "clear"
  /\ blk.race.stay # {}
  /\ \A i \in blk.race.stay : TimesIn(blk.race.done, i) = 1

\* C31: a walk over the used list from first_used that at each node either
\* advances or calls list_remove_node without advancing ends by itself, has
\* met every index of the used list once, in the list's order, leaves in the
\* used list the indices that were kept, in their order, and every removed
\* index is in the empty list (the list is still a partition).
C31_SweepVisitsEachOnce ==
  lop[1] = "sweep" =>
     LET w == sweep(lpre, lop[2]) IN
     /\ w.over
     /\ w.seen = UsedSeq(lpre)
     /\ lret = Len(UsedSeq(lpre))
     /\ UsedSeq(lst) = SelectSeq(UsedSeq(lpre), LAMBDA e : e \notin lop[2])
     /\ lop[2] \subseteq Range(EmptySeq(lst))
     /\ ListWellFormed(lst)

\* A walk over three or more nodes that removed a node, kept the next one and
\* removed a later one.
C31_Witness ==
  /\ lop[1] = "sweep"
  /\ Len(UsedSeq(lpre)) >= 3
  /\ UsedSeq(lpre)[1] \in lop[2]
  /\ UsedSeq(lpre)[2] \notin lop[2]
  /\ UsedSeq(lpre)[Len(UsedSeq(lpre))] \in lop[2]

\* C32: for every grain of output length L >= 2 and source length M >= 1,
\* after k samples have been rendered (0 <= k <= L, over any number of
\* blocks) src_I * (L-1) + src_R = k * (M-1) with 0 <= src_R < L-1, and
\* env_I * (L-1) + env_R = k * (env_n_frm-1) with 0 <= env_R < L-1.
C32_CursorsFollowTheSampleCount ==
  \A g \in 0..(gx.grains_max - 1) :
     LET grain == gx.grains_arr[g]
         k == rend[g]
     IN (grain.out_len >= 2 /\ grain.src_len >= 1)
        => /\ k \in 0..grain.out_len
           /\ grain.out_cntd = grain.out_len - k
           /\ grain.src_I * (grain.out_len - 1) + grain.src_R = k * (grain.src_len - 1)
           /\ grain.src_R >= 0 /\ grain.src_R < grain.out_len - 1
           /\ grain.env_I * (grain.out_len - 1) + grain.env_R = k * (gx.env_n_frm - 1)
           /\ grain.env_R >= 0 /\ grain.env_R < grain.out_len - 1

\* A grain twice as long as its source (8 samples for 4) was rendered in a
\* later block than its first, and its source cursor has a remainder.
C32_Witness ==
  /\ obs.ev = "grain"
  /\ gx.grains_arr[obs.slot].out_len = 8
  /\ gx.grains_arr[obs.slot].src_len = 4
  /\ obs.k >= 1
  /\ rend[obs.slot] > obs.k
  /\ gx.grains_arr[obs.slot].src_R > 0

\* A grain half as long as its source (2 samples for 4) was rendered to its end.
C32_WitnessShort ==
  /\ obs.ev = "grain"
  /\ gx.grains_arr[obs.slot].out_len = 2
  /\ gx.grains_arr[obs.slot].src_len = 4
  /\ rend[obs.slot] = 2
  /\ gx.grains_arr[obs.slot].src_I = 6

\* C33: a grain of L >= 2 samples spawned in block b at offset o gets its
\* k-th sample at place b*S + o + k of the output: every turn of the grain
\* loop writes the grain's next samples at the places that follow the ones
\* written before (in the first block from o, in every later block from 0,
\* never past the end of the block), and the grain is retired when all L
\* samples are written.
C33_OneRunOfSamples ==
  (obs.ev = "grain" /\ "at" \in DOMAIN blk /\ gx.grains_arr[obs.slot].out_len >= 2) =>
     LET before == rend[obs.slot] - obs.k IN
     /\ (blk.b - 1) * n_smp + obs.out_begin = blk.at[obs.slot] + before
     /\ obs.out_begin >= 0
     /\ obs.out_begin + obs.k <= n_smp
     /\ before > 0 => obs.out_begin = 0
     /\ obs.k = Min(n_smp - obs.out_begin, gx.grains_arr[obs.slot].out_len - before)
     /\ obs.retired <=> rend[obs.slot] = gx.grains_arr[obs.slot].out_len

\* A grain of three samples that began in the middle of a block of two was
\* written to its end in the next block.
C33_Witness ==
  /\ obs.ev = "grain"
  /\ "at" \in DOMAIN blk
  /\ n_smp = 2
  /\ gx.grains_arr[obs.slot].out_len = 3
  /\ blk.at[obs.slot] % 2 = 1
  /\ obs.out_begin = 0
  /\ obs.k = 2
  /\ obs.retired

\* C34: with periods of 0 or more of the length and a random part in [0, 1],
\* after any set_seeder, poly and period commands between the blocks and any
\* number of blocks: at the start of each block every accumulator
\* period_cntd[i], i < poly_cnt, is 0 or more, and every grain spawned in a
\* block of S samples has its out_begin in [0, S-1].
C34_AccumulatorsAndOffsets ==
  /\ obs.ev = "perform" =>
       \A i \in 0..(gx.seeders_max - 1) :
          \A k \in 0..(gx.seeders_arr[i].poly_cnt - 1) :
             gx.seeders_arr[i].period_cntd[k] >= 0
  /\ (obs.ev = "spawn" /\ obs.slot >= 0) =>
       /\ gx.grains_arr[obs.slot].out_begin >= 0
       /\ gx.grains_arr[obs.slot].out_begin <= n_smp - 1

\* A block began after a block in which grains were spawned, with every
\* accumulator at 0 or more.
C34_Steady ==
  /\ obs.ev = "perform"
  /\ gx.grains_cnt >= 1
  /\ gx.seeders_arr[0].is_on
  /\ gx.seeders_arr[0].poly_cnt = 2
  /\ \A k \in 0..1 : gx.seeders_arr[0].period_cntd[k] >= 0
  /\ gx.seeders_arr[0].period_cntd[1] > 0

\* C35: whatever the state of a seeder that is on and whatever the source
\* offset, positive or negative, the grain granular_add_grain_fs makes has its
\* source window inside the buffer: 0 <= src_begin and src_begin + src_len
\* <= buff_n_frm, and src_begin is the seeder's src_begin plus the offset when
\* that value is within both limits.
C35_GrainWindowClamped ==
  \A i \in Seeders :
     \A src_offset \in (0 - SrcFrames)..SrcFrames :
        LET seeder == gx.seeders_arr[i]
            a == granular_add_grain_fs(gx, seeder, src_offset, 0)
            b == seeder.src_begin + src_offset
        IN (pc = "idle" /\ seeder.is_on /\ a.slot >= 0) =>
              LET grain == a.x.grains_arr[a.slot] IN
              /\ 0 <= grain.src_begin
              /\ grain.src_begin + grain.src_len <= seeder.buff_n_frm
              /\ (0 <= b /\ b + seeder.src_len <= seeder.buff_n_frm) => grain.src_begin = b

\* A grain was spawned with its window moved back to the end of the buffer.
C35_ClampedAtTheEnd ==
  /\ obs.ev = "spawn"
  /\ obs.slot >= 0
  /\ gx.grains_arr[obs.slot].src_begin >= 1
  /\ gx.grains_arr[obs.slot].src_begin + gx.grains_arr[obs.slot].src_len
       = gx.seeders_arr[0].buff_n_frm

\* C36: a spawn of the main stream moves the seeder's src_begin on by the
\* period's displacement: when the moved window ends past the end of the
\* buffer src_begin becomes 0, when the moved begin is negative it becomes
\* buff_n_frm - src_len, otherwise it is the moved value; a spawn of another
\* stream leaves src_begin as it was.
Displaced(x, i, U) ==
  LET seeder == x.seeders_arr[i] IN
  seeder.src_begin
    + Trunc(NextPeriod(seeder, U) * seeder.speed * seeder.buff_msr, x.msamplerate)

C36_SourceBeginWraps ==
  [][ (pc = "seeders" /\ obs'.ev = "spawn") =>
        LET i == CursorSeeder
            seeder == gx.seeders_arr[i]
            b == Displaced(gx, i, obs'.U)
            after == gx'.seeders_arr[i].src_begin
        IN IF strm = 0
           THEN /\ (b + seeder.src_len > seeder.buff_n_frm) => after = 0
                /\ b < 0 => after = seeder.buff_n_frm - seeder.src_len
                /\ (b >= 0 /\ b + seeder.src_len <= seeder.buff_n_frm) => after = b
           ELSE after = seeder.src_begin ]_vars

\* The main stream spawned a grain and the seeder's window, moved back before
\* the start of the buffer, is at the end of the buffer.
C36_WrappedToTheEnd ==
  /\ obs.ev = "spawn"
  /\ strm = 0
  /\ gx.seeders_arr[0].speed < 0
  /\ gx.seeders_arr[0].src_len <= gx.seeders_arr[0].buff_n_frm
  /\ gx.seeders_arr[0].src_begin = gx.seeders_arr[0].buff_n_frm - gx.seeders_arr[0].src_len
  /\ gx.seeders_arr[0].src_begin > 0

\* C37: in the grain loop a grain whose seeder has no buffer~ object any more,
\* or whose buffer_locksamples returns no samples, reads no source sample in
\* that block, and the pass goes on with the next grain.
C37_NoReadWithoutSamples ==
  (obs.ev = "grain" /\ obs.buff_src = NULL) =>
     /\ obs.k = 0
     /\ pc = "grains"

\* A grain was rendered from the samples of its seeder's buffer~ after the
\* buffer~ was linked again.
C37_Linked ==
  /\ obs.ev = "grain"
  /\ obs.buff_src = "a"
  /\ obs.k = 1
  /\ gx.seeders_arr[0].buff_state = BUFF_READY

\* C38: after any blocks and file commands, one at a time, grains_cnt is the
\* length of the used list of the grain list and lies in [0, grains_max], so
\* granular_add_grain_fs never calls list_insert_first on a grain list with no
\* empty node (no write outside grains_arr).
C38_GrainCountIsUsedLength ==
  /\ gx.grains_cnt = Len(UsedSeq(gx.grains_list))
  /\ gx.grains_cnt >= 0
  /\ gx.grains_cnt <= gx.grains_max
  /\ ListWellFormed(gx.grains_list)
  /\ pc # "undefined"
  /\ obs.ev = "spawn" => obs.slot # LIST_ERR_FULL

\* A file command unlinked a grain of its seeder while a grain of the other
\* seeder went on playing.
C38_Witness ==
  /\ obs.ev = "file"
  /\ gx.grains_cnt = 1
  /\ gx.grains_arr[UsedSeq(gx.grains_list)[1]].index # obs.index
  /\ \E g \in Range(EmptySeq(gx.grains_list)) :
        /\ gx.grains_arr[g].index = obs.index
        /\ gx.grains_arr[g].out_cntd > 0


\* C39: list_remove_last on a list with used nodes takes the last node out of
\* the used list, puts it at the head of the empty list and returns its index
\* (in 0..N-1); on a list with no used node it returns LIST_ERR_EMPTY and
\* changes nothing.
C39_RemoveLastReturnsTheIndex ==
  lop[1] = "list_remove_last" =>
    IF UsedSeq(lpre) = <<>>
    THEN lret = LIST_ERR_EMPTY /\ lst = lpre
    ELSE LET u == UsedSeq(lpre) IN
         /\ UsedSeq(lst) = SubSeq(u, 1, Len(u) - 1)
         /\ EmptySeq(lst) = <<u[Len(u)]>> \o EmptySeq(lpre)
         /\ lret = u[Len(u)]
         /\ lret \in 0..(lst.len - 1)

\* The list part of C39 alone: the last used node moved to the head of the
\* empty list by a list_remove_last that returned LIST_END.
C39_MovedButEndReturned ==
  /\ lop[1] = "list_remove_last"
  /\ Len(UsedSeq(lpre)) >= 2
  /\ UsedSeq(lst) = SubSeq(UsedSeq(lpre), 1, Len(UsedSeq(lpre)) - 1)
  /\ EmptySeq(lst) = <<UsedSeq(lpre)[Len(UsedSeq(lpre))]>> \o EmptySeq(lpre)
  /\ lret = LIST_END

====
